---- MODULE Spec2Model ----
(***************************************************************************)
(* Model of the streaming CNC pipeline of klippy/extras/cnc:                 *)
(*   planner.py     CNCPlanner (push / finish / reset, _plan_window, ...)     *)
(*   controller.py  CNCController (pump / step / start / feed_hold / ...)     *)
(*   cnc_mode.py    CNCMode (CNC_START / ... commands, the timer handler)     *)
(*   modal_state.py CNCModalState (units, distance mode, resolve_target)      *)
(*   interpreter.py CNCInterpreter.interpret                                  *)
(*   linear.py      segment_linear                                            *)
(*   arc.py         segment_arc, compute_arc_center_from_r                    *)
(*   limits.py      SoftLimits.check_point                                    *)
(*                                                                           *)
(* Numbers.  Python floats are modelled as exact rationals [n, d] (d > 0,    *)
(* lowest terms); float("inf") is the value Inf = 1/0.  Rounding is not      *)
(* modelled.  A speed v is carried as its square v^2 (a non-negative real is *)
(* determined by its square): the planner computes every speed in v^2 space  *)
(* and takes math.sqrt only when it builds a PlannedPrimitive, so the fields *)
(* v_entry, v_exit, v_peak appear here as v_entry2, v_exit2, v_peak2, and    *)
(* the trapezoid times, which need those roots, are represented by the       *)
(* distances d_accel, d_cruise, d_decel they are computed from.              *)
(***************************************************************************)
EXTENDS Integers, Sequences, FiniteSets, TLC

VARIABLES
    planner,    \* CNCPlanner: [cfg, window, window_time, carry_in_v2]
    ctrl,       \* CNCController: [state, ready_queue, eof, completed_length, last_reported]
    streamer,   \* the line source handed to pump: [remaining, line_number, eof, open]
    executed,   \* the primitives executor.execute carried out in the current job, in order
    hist,       \* history of the current job (since construction / reset)
    call,       \* the last call made, the state it was made in and its result
    mode,       \* CNCMode: [job_state, has_streamer, timer, buf, report]
    run,        \* where a run_stream call is: "out" | "loop" | "returned" | "raised"
    state       \* CNCModalState: the modal state the interpreter works on

vars == <<planner, ctrl, streamer, executed, hist, call, mode, run, state>>

-----------------------------------------------------------------------------
(* Exact rational arithmetic standing for Python float arithmetic.           *)

Abs(x) == IF x < 0 THEN -x ELSE x

RECURSIVE GCD(_, _)
GCD(a, b) == IF b = 0 THEN a ELSE GCD(b, a % b)

Rat(n, d) ==
    LET g == GCD(Abs(n), d) IN [n |-> n \div g, d |-> d \div g]

Inf == [n |-> 1, d |-> 0]
Zero == [n |-> 0, d |-> 1]
R(i) == [n |-> i, d |-> 1]

RLe(a, b) == a.n * b.d <= b.n * a.d
RLt(a, b) == a.n * b.d < b.n * a.d
RMin(a, b) == IF RLe(a, b) THEN a ELSE b
RMax(a, b) == IF RLe(a, b) THEN b ELSE a
RAdd(a, b) == IF a.d = 0 \/ b.d = 0 THEN Inf ELSE Rat(a.n * b.d + b.n * a.d, a.d * b.d)
RSub(a, b) == Rat(a.n * b.d - b.n * a.d, a.d * b.d)
RMul(a, b) == Rat(a.n * b.n, a.d * b.d)
RDiv(a, b) == IF b.n < 0 THEN Rat(-(a.n * b.d), a.d * (-b.n)) ELSE Rat(a.n * b.d, a.d * b.n)
RAbs(a) == [n |-> Abs(a.n), d |-> a.d]

RECURSIVE SqrtSearch(_, _, _)
SqrtSearch(n, lo, hi) ==
    IF lo >= hi THEN lo
    ELSE LET mid == (lo + hi + 1) \div 2
         IN  IF mid * mid <= n THEN SqrtSearch(n, mid, hi) ELSE SqrtSearch(n, lo, mid - 1)

\* math.sqrt on the integers the model feeds it (perfect squares: exact).
ISqrt(n) == SqrtSearch(n, 0, IF n < 46340 THEN n ELSE 46340)

\* math.sqrt on a rational with a rational root: sqrt(n/d) = sqrt(n*d)/d.
RSqrt(a) == Rat(ISqrt(a.n * a.d), a.d)

\* x < EPS and x <= EPS, EPS = 1e-12 (planner.py:10).  Every positive quantity
\* of the model is a rational with a small denominator, far above 1e-12, so a
\* quantity is below EPS exactly when it is not positive.
BelowEps(x) == x.n <= 0

-----------------------------------------------------------------------------
(* primitives.py                                                             *)

RAPID == "G0"
LINEAR == "G1"

\* Optional[float]: None is <<>>, a value v is <<v>>.
None == <<>>
Some(v) == <<v>>

MotionPrimitive(motion, start, end, feedrate) ==
    [motion |-> motion, start |-> start, end |-> end, feedrate |-> feedrate]

\* MotionPrimitive.length(): sqrt(dx*dx + dy*dy + dz*dz)
length(p) ==
    LET dx == p.end[1] - p.start[1]
        dy == p.end[2] - p.start[2]
        dz == p.end[3] - p.start[3]
    IN  ISqrt(dx * dx + dy * dy + dz * dz)

-----------------------------------------------------------------------------
(* planner.py: helpers                                                       *)

clamp(x, lo, hi) == RMax(lo, RMin(hi, x))

unit_vec(p) ==
    LET dx == p.end[1] - p.start[1]
        dy == p.end[2] - p.start[2]
        dz == p.end[3] - p.start[3]
        L  == ISqrt(dx * dx + dy * dy + dz * dz)
    IN  IF BelowEps(R(L)) THEN <<Zero, Zero, Zero>>
        ELSE <<Rat(dx, L), Rat(dy, L), Rat(dz, L)>>

RECURSIVE MinOf(_)
MinOf(s) == IF Len(s) = 1 THEN s[1] ELSE RMin(s[1], MinOf(Tail(s)))

\* axis_accels: None or <<(ax, ay, az)>>
effective_path_accel(u, default_accel, axis_accels) ==
    IF axis_accels = None THEN default_accel
    ELSE LET ax == axis_accels[1][1]
             ay == axis_accels[1][2]
             az == axis_accels[1][3]
             ux == RAbs(u[1])
             uy == RAbs(u[2])
             uz == RAbs(u[3])
             candidates ==
                 (IF ~BelowEps(ux) THEN <<RDiv(ax, ux)>> ELSE <<>>) \o
                 (IF ~BelowEps(uy) THEN <<RDiv(ay, uy)>> ELSE <<>>) \o
                 (IF ~BelowEps(uz) THEN <<RDiv(az, uz)>> ELSE <<>>)
         IN  IF candidates = <<>> THEN default_accel ELSE MinOf(candidates)

\* _junction_v2 taking the angle between the directions for the junction
\* angle (junction_cos_theta = dot): a reversal is read as a straight line.
junction_v2_of_dot(prev, cur, jd, accel) ==
    LET u1 == prev.u
        u2 == cur.u
        dot == clamp(RAdd(RAdd(RMul(u1[1], u2[1]), RMul(u1[2], u2[2])), RMul(u1[3], u2[3])),
                     R(-1), R(1))
        junction_cos_theta == dot
        sin_theta_d2 == RSqrt(RMax(RMul(Rat(1, 2), RSub(R(1), junction_cos_theta)), Zero))
        cos_theta_d2 == RSqrt(RMax(RMul(Rat(1, 2), RAdd(R(1), junction_cos_theta)), Zero))
        one_minus_sin == RSub(R(1), sin_theta_d2)
    IN  IF BelowEps(one_minus_sin) \/ BelowEps(cos_theta_d2) THEN Inf
        ELSE LET Rf == RDiv(sin_theta_d2, one_minus_sin)
                 v2_jd == RMul(accel, RMul(jd, Rf))
                 quarter_tan == RDiv(RMul(Rat(1, 4), sin_theta_d2), cos_theta_d2)
                 v2_cent_cur == RMul(cur.delta_v2, quarter_tan)
                 v2_cent_prev == RMul(prev.delta_v2, quarter_tan)
             IN  RMin(v2_jd, RMin(v2_cent_cur, v2_cent_prev))

\* _junction_v2: the junction-deviation cap (v^2) between prev and cur.
junction_v2(prev, cur, jd, accel) ==
    LET u1 == prev.u
        u2 == cur.u
        dot == clamp(RAdd(RAdd(RMul(u1[1], u2[1]), RMul(u1[2], u2[2])), RMul(u1[3], u2[3])),
                     R(-1), R(1))
        junction_cos_theta == RSub(Zero, dot)
        sin_theta_d2 == RSqrt(RMax(RMul(Rat(1, 2), RSub(R(1), junction_cos_theta)), Zero))
        cos_theta_d2 == RSqrt(RMax(RMul(Rat(1, 2), RAdd(R(1), junction_cos_theta)), Zero))
        one_minus_sin == RSub(R(1), sin_theta_d2)
    IN  IF BelowEps(one_minus_sin) \/ BelowEps(cos_theta_d2) THEN Inf
        ELSE LET Rf == RDiv(sin_theta_d2, one_minus_sin)
                 v2_jd == RMul(accel, RMul(jd, Rf))
                 quarter_tan == RDiv(RMul(Rat(1, 4), sin_theta_d2), cos_theta_d2)
                 v2_cent_cur == RMul(cur.delta_v2, quarter_tan)
                 v2_cent_prev == RMul(prev.delta_v2, quarter_tan)
             IN  RMin(v2_jd, RMin(v2_cent_cur, v2_cent_prev))

-----------------------------------------------------------------------------
(* planner.py: _plan_window.  moves is the window (1-based sequence); the    *)
(* code's move i is Mv(moves, i) and boundary b of cap2 / v2b is index b of  *)
(* a function on 0..n, as in the code.                                       *)

Mv(moves, i) == moves[i + 1]
vmax2_of(m) == RMul(m.vmax, m.vmax)
two_a_L(m) == RMul(R(2), RMul(m.accel, m.L))

\* Boundary caps without the junction loop (lines 154-163): a junction is
\* limited by the two moves' vmax alone.
boundary_caps_no_junction(moves, junction_deviation, start_v2, stop_at_end) ==
    LET n == Len(moves)
    IN  [b \in 0..n |->
            LET c0 == IF b = n THEN (IF stop_at_end THEN Zero ELSE Inf)
                      ELSE IF b = 0 THEN RMax(Zero, start_v2)
                      ELSE Inf
                c1 == IF b < n THEN RMin(c0, vmax2_of(Mv(moves, b))) ELSE c0
            IN  IF b > 0 THEN RMin(c1, vmax2_of(Mv(moves, b - 1))) ELSE c1]

\* cap2 after lines 140-163: carry-in and end condition, the per-move vmax
\* clamp of both boundaries of every move, and the junction caps.
boundary_caps(moves, junction_deviation, start_v2, stop_at_end) ==
    LET n == Len(moves)
    IN  [b \in 0..n |->
            LET c0 == IF b = n THEN (IF stop_at_end THEN Zero ELSE Inf)
                      ELSE IF b = 0 THEN RMax(Zero, start_v2)
                      ELSE Inf
                c1 == IF b < n THEN RMin(c0, vmax2_of(Mv(moves, b))) ELSE c0
                c2 == IF b > 0 THEN RMin(c1, vmax2_of(Mv(moves, b - 1))) ELSE c1
            IN  IF b >= 1 /\ b <= n - 1
                THEN LET prev == Mv(moves, b - 1)
                         cur == Mv(moves, b)
                         a_junc == RMin(prev.accel, cur.accel)
                         v2 == RMin(junction_v2(prev, cur, junction_deviation, a_junc),
                                    RMin(vmax2_of(prev), vmax2_of(cur)))
                     IN  RMin(c2, v2)
                ELSE c2]

\* A planner without the backward pass: the caps go to the forward pass as they are.
backward_pass_skipped(v2b, moves, i) == v2b

\* for i in reversed(range(1, n)): v2b[i] = min(v2b[i], v2b[i+1] + 2*a*L)
RECURSIVE backward_pass(_, _, _)
backward_pass(v2b, moves, i) ==
    IF i < 1 THEN v2b
    ELSE backward_pass(
             [v2b EXCEPT ![i] = RMin(v2b[i], RAdd(v2b[i + 1], two_a_L(Mv(moves, i))))],
             moves, i - 1)

\* for i in range(n): v2b[i+1] = min(v2b[i+1], v2b[i] + 2*a*L)
RECURSIVE forward_pass(_, _, _)
forward_pass(v2b, moves, i) ==
    IF i >= Len(moves) THEN v2b
    ELSE forward_pass(
             [v2b EXCEPT ![i + 1] = RMin(v2b[i + 1], RAdd(v2b[i], two_a_L(Mv(moves, i))))],
             moves, i + 1)

\* A peak speed limited by acceleration alone, without the min with vmax^2.
peak_v2_uncapped(m, v_in2, v_out2) ==
    RAdd(RMul(m.accel, m.L), RMul(Rat(1, 2), RAdd(v_in2, v_out2)))

\* v_peak^2 of one move (line 200)
peak_v2(m, v_in2, v_out2) ==
    RMin(vmax2_of(m),
         RAdd(RMul(m.accel, m.L), RMul(Rat(1, 2), RAdd(v_in2, v_out2))))

\* One PlannedPrimitive (lines 189-233).
plan_move(m, v2_in, v2_out) ==
    LET v_in2 == RMax(Zero, v2_in)
        v_out2 == RMax(Zero, v2_out)
        v_peak2 == peak_v2(m, v_in2, v_out2)
        a == m.accel
    IN  IF BelowEps(a)
        THEN [primitive |-> m.p, v_entry2 |-> v_in2, v_exit2 |-> v_out2,
              v_peak2 |-> RMax(Zero, v_peak2), accel |-> a,
              d_accel |-> Zero,
              d_cruise |-> IF ~BelowEps(v_peak2) THEN m.L ELSE Zero,
              d_decel |-> Zero]
        ELSE LET d_accel == RDiv(RSub(v_peak2, v_in2), RMul(R(2), a))
                 d_decel == RDiv(RSub(v_peak2, v_out2), RMul(R(2), a))
                 d_cruise == RMax(Zero, RSub(RSub(m.L, d_accel), d_decel))
             IN  [primitive |-> m.p, v_entry2 |-> v_in2, v_exit2 |-> v_out2,
                  v_peak2 |-> RMax(Zero, v_peak2), accel |-> a,
                  d_accel |-> d_accel,
                  d_cruise |-> IF ~BelowEps(v_peak2) THEN d_cruise ELSE Zero,
                  d_decel |-> d_decel]

\* A plan that never stops at the end of the window (stop_at_end ignored).
plan_window_running_on(moves, junction_deviation, start_v2, stop_at_end) ==
    LET n == Len(moves)
    IN  IF n = 0 THEN <<>>
        ELSE LET cap2 == boundary_caps(moves, junction_deviation, start_v2, FALSE)
                 v2b == forward_pass(backward_pass(cap2, moves, n - 1), moves, 0)
             IN  [k \in 1..n |-> plan_move(moves[k], v2b[k - 1], v2b[k])]

\* _plan_window (lines 118-235)
plan_window(moves, junction_deviation, start_v2, stop_at_end) ==
    LET n == Len(moves)
    IN  IF n = 0 THEN <<>>
        ELSE LET cap2 == boundary_caps(moves, junction_deviation, start_v2, stop_at_end)
                 v2b == forward_pass(backward_pass(cap2, moves, n - 1), moves, 0)
             IN  [k \in 1..n |-> plan_move(moves[k], v2b[k - 1], v2b[k])]

-----------------------------------------------------------------------------
(* planner.py: CNCPlanner                                                    *)

IMax(a, b) == IF a >= b THEN a ELSE b

\* __init__ (lines 266-278)
CNCPlanner(max_velocity, max_accel, junction_deviation, buffer_time, keep_tail_moves, max_window_moves, axis_accels) ==
    [cfg |-> [max_velocity |-> max_velocity,
              max_accel |-> max_accel,
              junction_deviation |-> junction_deviation,
              buffer_time |-> buffer_time,
              keep_tail_moves |-> IMax(1, keep_tail_moves),
              max_window_moves |-> IMax(10, max_window_moves),
              axis_accels |-> axis_accels],
     window |-> <<>>,
     window_time |-> Zero,
     carry_in_v2 |-> Zero]

\* A reset that keeps the carry-in speed.
planner_reset_keeping_speed(pl) == [pl EXCEPT !.window = <<>>, !.window_time = Zero]

\* reset (lines 280-283)
planner_reset(pl) ==
    [pl EXCEPT !.window = <<>>, !.window_time = Zero, !.carry_in_v2 = Zero]

\* _make_moveinfo without the length check of lines 322-324.
make_moveinfo_any_length(cfg, prim) ==
    Some([p |-> prim, L |-> R(length(prim)), u |-> unit_vec(prim),
          vmax |-> cfg.max_velocity,
          accel |-> effective_path_accel(unit_vec(prim), cfg.max_accel, cfg.axis_accels),
          min_time |-> Zero, delta_v2 |-> Zero])

\* _make_moveinfo: None (<<>>) for a primitive shorter than EPS, else <<_MoveInfo>>.
make_moveinfo(cfg, prim) ==
    LET L == R(length(prim))
    IN  IF BelowEps(L) THEN None
        ELSE LET v_cmd ==
                     IF prim.motion = RAPID THEN cfg.max_velocity
                     ELSE IF prim.feedrate = None \/ prim.feedrate[1] <= 0
                          THEN cfg.max_velocity
                          ELSE RMin(Rat(prim.feedrate[1], 60), cfg.max_velocity)
                 u == unit_vec(prim)
                 a == effective_path_accel(u, cfg.max_accel, cfg.axis_accels)
             IN  Some([p |-> prim, L |-> L, u |-> u, vmax |-> v_cmd, accel |-> a,
                       min_time |-> IF ~BelowEps(v_cmd) THEN RDiv(L, v_cmd) ELSE Zero,
                       delta_v2 |-> RMul(R(2), RMul(L, a))])

RECURSIVE flush_count_from(_, _, _, _, _, _)

\* A loop that never looks at the remaining time: it commits max_flush moves.
flush_count_from_untimed(window, buffer_time, force, max_flush, fc, remaining_time) ==
    IMax(fc, max_flush)

\* The while loop of _flush_if_ready (lines 390-398), flush_count counted from fc.
flush_count_from(window, buffer_time, force, max_flush, fc, remaining_time) ==
    IF fc >= max_flush THEN fc
    ELSE LET next_remaining == RSub(remaining_time, window[fc + 1].min_time)
         IN  IF ~force /\ RLt(next_remaining, buffer_time) THEN fc
             ELSE flush_count_from(window, buffer_time, force, max_flush, fc + 1,
                                   next_remaining)

RECURSIVE sum_min_time(_)
sum_min_time(ms) == IF ms = <<>> THEN Zero ELSE RAdd(ms[1].min_time, sum_min_time(Tail(ms)))

\* A commit that forgets the speed it left the new head with.
new_carry_in_forgotten(planned_all, flush_count) == Zero

\* Carry-in for the new head of the window (lines 405-410).
new_carry_in(planned_all, flush_count) ==
    IF flush_count < Len(planned_all)
    THEN planned_all[flush_count + 1].v_entry2
    ELSE Zero

\* committed = planned_all[:flush_count] (line 403)
committed(planned_all, flush_count) == SubSeq(planned_all, 1, flush_count)

\* A pop loop that runs one round short: the last committed move stays at the
\* head of the window.
popleft_flushed_short(window, flush_count) == SubSeq(window, flush_count, Len(window))

\* for _ in range(flush_count): self._window.popleft() (lines 413-414)
popleft_flushed(window, flush_count) == SubSeq(window, flush_count + 1, Len(window))

\* _flush_if_ready allowed to commit the whole window (max_flush = len(window)).
flush_if_ready_no_tail(pl, force) ==
    IF Len(pl.window) <= pl.cfg.keep_tail_moves THEN [pl |-> pl, out |-> <<>>]
    ELSE IF ~force /\ RLt(pl.window_time, pl.cfg.buffer_time) THEN [pl |-> pl, out |-> <<>>]
    ELSE LET planned_all == plan_window(pl.window, pl.cfg.junction_deviation,
                                        pl.carry_in_v2, TRUE)
             max_flush == Len(pl.window)
             flush_count == flush_count_from(pl.window, pl.cfg.buffer_time, force,
                                             max_flush, 0, pl.window_time)
             popped_time == RSub(pl.window_time,
                                 sum_min_time(SubSeq(pl.window, 1, flush_count)))
         IN  IF flush_count <= 0 THEN [pl |-> pl, out |-> <<>>]
             ELSE [pl |-> [pl EXCEPT
                             !.carry_in_v2 = new_carry_in(planned_all, flush_count),
                             !.window = popleft_flushed(pl.window, flush_count),
                             !.window_time = IF RLt(popped_time, Zero) THEN Zero
                                             ELSE popped_time],
                   out |-> committed(planned_all, flush_count)]

\* _flush_if_ready: [pl |-> the planner afterwards, out |-> the committed prefix]
flush_if_ready(pl, force) ==
    IF Len(pl.window) <= pl.cfg.keep_tail_moves THEN [pl |-> pl, out |-> <<>>]
    ELSE IF ~force /\ RLt(pl.window_time, pl.cfg.buffer_time) THEN [pl |-> pl, out |-> <<>>]
    ELSE LET planned_all == plan_window(pl.window, pl.cfg.junction_deviation,
                                        pl.carry_in_v2, TRUE)
             max_flush == Len(pl.window) - pl.cfg.keep_tail_moves
             flush_count == flush_count_from(pl.window, pl.cfg.buffer_time, force,
                                             max_flush, 0, pl.window_time)
             popped_time == RSub(pl.window_time,
                                 sum_min_time(SubSeq(pl.window, 1, flush_count)))
         IN  IF flush_count <= 0 THEN [pl |-> pl, out |-> <<>>]
             ELSE [pl |-> [pl EXCEPT
                             !.carry_in_v2 = new_carry_in(planned_all, flush_count),
                             !.window = popleft_flushed(pl.window, flush_count),
                             !.window_time = IF RLt(popped_time, Zero) THEN Zero
                                             ELSE popped_time],
                   out |-> committed(planned_all, flush_count)]

\* A push that never forces a flush (force = False).
planner_push_unforced(pl, prim) ==
    LET mi == make_moveinfo(pl.cfg, prim)
    IN  IF mi = None THEN [pl |-> pl, out |-> <<>>]
        ELSE flush_if_ready([pl EXCEPT !.window = Append(pl.window, mi[1]),
                                       !.window_time = RAdd(pl.window_time, mi[1].min_time)],
                            FALSE)

\* push: [pl, out]
planner_push(pl, prim) ==
    LET mi == make_moveinfo(pl.cfg, prim)
    IN  IF mi = None THEN [pl |-> pl, out |-> <<>>]
        ELSE LET pl1 == [pl EXCEPT !.window = Append(pl.window, mi[1]),
                                   !.window_time = RAdd(pl.window_time, mi[1].min_time)]
                 force == Len(pl1.window) >= pl1.cfg.max_window_moves
             IN  flush_if_ready(pl1, force)

\* A finish that plans the window without the stop at its end.
planner_finish_no_stop(pl) ==
    IF pl.window = <<>> THEN [pl |-> pl, out |-> <<>>]
    ELSE [pl |-> planner_reset(pl),
          out |-> plan_window(pl.window, pl.cfg.junction_deviation, pl.carry_in_v2, FALSE)]

\* finish: [pl, out]
planner_finish(pl) ==
    IF pl.window = <<>> THEN [pl |-> pl, out |-> <<>>]
    ELSE [pl |-> planner_reset(pl),
          out |-> plan_window(pl.window, pl.cfg.junction_deviation, pl.carry_in_v2, TRUE)]

-----------------------------------------------------------------------------
(* modal_state.py: CNCModalState.  Lengths are millimetres, feedrates        *)
(* millimetres per minute, both exact rationals.  A position is a triple     *)
(* <<x, y, z>> of rationals.                                                 *)

ARC_CW == "G2"
ARC_CCW == "G3"

Inch == Rat(127, 5)     \* 25.4 (line 93)
Zero3 == <<Zero, Zero, Zero>>
WCSNames == {"G54", "G55", "G56", "G57", "G58", "G59"}
Axes == <<"X", "Y", "Z">>

\* __init__ (lines 13-85).  The interpreter also reads state.max_segment_time
\* (interpreter.py:200), which __init__ does not set: None is the attribute
\* missing, Some(t) the attribute as a caller has set it on the object (the
\* way test_file.py:26 sets arc_tolerance).
CNCModalState ==
    [units |-> "mm", units_scale |-> R(1), absolute |-> TRUE, plane |-> "G17",
     feedrate |-> R(1000), active_wcs |-> "G54",
     work_offsets |-> [n \in WCSNames |-> Zero3],
     position |-> Zero3, motion_mode |-> "None", arc_tolerance |-> Rat(1, 100),
     max_segment_time |-> None]

\* set_units (lines 87-96)
set_units(st, gcode) ==
    IF gcode = "G20" THEN [st EXCEPT !.units = "inch", !.units_scale = Inch]
    ELSE IF gcode = "G21" THEN [st EXCEPT !.units = "mm", !.units_scale = R(1)]
    ELSE st

\* set_plane (lines 98-107)
set_plane(st, gcode) ==
    IF gcode \in {"G17", "G18", "G19"} THEN [st EXCEPT !.plane = gcode] ELSE st

\* set_distance_mode (lines 109-113)
set_distance_mode(st, gcode) == [st EXCEPT !.absolute = (gcode = "G90")]

\* update_feedrate (lines 115-119)
update_feedrate(st, f) == [st EXCEPT !.feedrate = RMul(f, st.units_scale)]

\* target[letter] = value on a dict
put(target, letter, value) ==
    [l \in DOMAIN target \cup {letter} |-> IF l = letter THEN value ELSE target[l]]

NoWords == [l \in {} |-> Zero]

\* resolve_target (lines 121-143): [raised, value].  In absolute mode line 139
\* reads self.work_offset, an attribute no code defines (the offsets are in
\* work_offsets): the first axis word met raises AttributeError.
resolve_target(st, target) ==
    IF st.absolute /\ \E i \in 1..3 : Axes[i] \in DOMAIN target
    THEN [raised |-> "AttributeError", value |-> None]
    ELSE [raised |-> "",
          value |-> [i \in 1..3 |->
                        IF Axes[i] \in DOMAIN target
                        THEN RAdd(st.position[i], RMul(target[Axes[i]], st.units_scale))
                        ELSE st.position[i]]]

-----------------------------------------------------------------------------
(* limits.py: SoftLimits.  limits maps axis letters to <<min, max>>.         *)

\* check_point (lines 37-55): TRUE when SoftLimitError is raised.
check_point(limits, point) ==
    \E i \in 1..3 :
        /\ Axes[i] \in DOMAIN limits
        /\ \/ RLt(point[i], limits[Axes[i]][1])
           \/ RLt(limits[Axes[i]][2], point[i])

-----------------------------------------------------------------------------
(* linear.py: segment_linear.                                                *)

\* math.ceil and int() on a non-negative rational
RCeil(a) == -((-a.n) \div a.d)
RFloor(a) == a.n \div a.d

Sub3(a, b) == <<RSub(a[1], b[1]), RSub(a[2], b[2]), RSub(a[3], b[3])>>
Dot3(a, b) == RAdd(RMul(a[1], b[1]), RAdd(RMul(a[2], b[2]), RMul(a[3], b[3])))

\* math.dist(start, end); exact on the points of the model, whose distances
\* are rational.
dist(start, end) == RSqrt(Dot3(Sub3(end, start), Sub3(end, start)))

\* start + (end - start) * t, per coordinate (lines 48-52)
interpolate(start, end, t) ==
    [k \in 1..3 |-> RAdd(start[k], RMul(RSub(end[k], start[k]), t))]

\* Line 37 with math.floor for math.ceil.
segment_count_floor(move_time, max_segment_time) ==
    IMax(1, RFloor(RDiv(move_time, max_segment_time)))

\* segments = max(1, math.ceil(move_time / max_segment_time)) (line 37)
segment_count(move_time, max_segment_time) ==
    IMax(1, RCeil(RDiv(move_time, max_segment_time)))

\* The loop of lines 39-56: segment i runs from the point at (i-1)/segments to
\* the point at i/segments, the first from start itself.
linear_segments(start, end, segments) ==
    [i \in 1..segments |->
        <<IF i = 1 THEN start ELSE interpolate(start, end, Rat(i - 1, segments)),
          interpolate(start, end, Rat(i, segments))>>]

\* segment_linear (lines 4-58): the list of (seg_start, seg_end).
segment_linear(start, end, feedrate, max_segment_time) ==
    IF start = end THEN <<>>
    ELSE LET feed_ups == IF RLt(Zero, feedrate) THEN RDiv(feedrate, R(60)) ELSE Zero
         IN  IF RLe(feed_ups, Zero) \/ RLe(dist(start, end), Zero)
             THEN <<<<start, end>>>>
             ELSE linear_segments(start, end,
                      segment_count(RDiv(dist(start, end), feed_ups), max_segment_time))

-----------------------------------------------------------------------------
(* arc.py.  An angle is carried as a rational number of half-turns (its      *)
(* value divided by pi).  The arcs of the model have their points on the     *)
(* axes through the centre, so that every angle is a multiple of pi/2 and    *)
(* every coordinate is rational; the three arguments on which math.acos      *)
(* gives a rational multiple of pi are 0, 1/2 and 1.                         *)

hypot(dx, dy) == RSqrt(RAdd(RMul(dx, dx), RMul(dy, dy)))

\* math.atan2(dy, dx) / pi for a direction along an axis
atan2(dy, dx) ==
    CASE dy.n = 0 /\ dx.n > 0 -> Zero
      [] dx.n = 0 /\ dy.n > 0 -> Rat(1, 2)
      [] dy.n = 0 /\ dx.n < 0 -> R(1)
      [] dx.n = 0 /\ dy.n < 0 -> Rat(-1, 2)

\* math.acos(c) / pi
acos(c) ==
    CASE c = Zero -> Rat(1, 2)
      [] c = Rat(1, 2) -> Rat(1, 3)
      [] c = R(1) -> Zero

\* The number of quarter turns in a multiple of pi/2, modulo a full turn.
quarter(ang) == (ang.n * (2 \div ang.d)) % 4

\* math.cos and math.sin of a multiple of pi/2
cos(ang) == R(<<1, 0, -1, 0>>[quarter(ang) + 1])
sin(ang) == R(<<0, 1, 0, -1>>[quarter(ang) + 1])

\* Lines 47-69 of segment_arc: the signed sweep, in half-turns.
arc_sweep(start, end, center, clockwise) ==
    IF start = end
    THEN IF clockwise THEN R(-2) ELSE R(2)
    ELSE LET sweep == RSub(atan2(RSub(end[2], center[2]), RSub(end[1], center[1])),
                           atan2(RSub(start[2], center[2]), RSub(start[1], center[1])))
         IN  IF clockwise /\ RLt(Zero, sweep) THEN RSub(sweep, R(2))
             ELSE IF ~clockwise /\ RLt(sweep, Zero) THEN RAdd(sweep, R(2))
             ELSE sweep

\* max_seg_angle = 2 * math.acos(max(0.0, 1 - tolerance / rs)) (line 83)
max_seg_angle(tolerance, rs) ==
    RMul(R(2), acos(RMax(Zero, RSub(R(1), RDiv(tolerance, rs)))))

\* segments = max(1, int(abs(sweep) / max_seg_angle)) (line 86)
arc_segment_count(sweep, max_angle) == IMax(1, RFloor(RDiv(RAbs(sweep), max_angle)))

\* Lines 88-100: the points at start_ang + sweep * i / segments.
arc_points(center, rs, start_ang, sweep, segments) ==
    [i \in 1..segments |->
        <<RAdd(center[1], RMul(rs, cos(RAdd(start_ang, RMul(sweep, Rat(i, segments)))))),
          RAdd(center[2], RMul(rs, sin(RAdd(start_ang, RMul(sweep, Rat(i, segments))))))>>]

\* segment_arc (lines 5-102): [raised, points], with the sweep, the angle
\* limit and the number of segments it computed on the way.
arc_cut(start, center, rs, sweep, max_angle) ==
    IF max_angle = Zero
    THEN [raised |-> "ZeroDivisionError", points |-> <<>>, sweep |-> sweep,
          max_seg_angle |-> max_angle, segments |-> 0]
    ELSE [raised |-> "", sweep |-> sweep, max_seg_angle |-> max_angle,
          segments |-> arc_segment_count(sweep, max_angle),
          points |-> arc_points(center, rs,
                        atan2(RSub(start[2], center[2]), RSub(start[1], center[1])),
                        sweep, arc_segment_count(sweep, max_angle))]

segment_arc(start, end, center, clockwise, tolerance) ==
    IF hypot(RSub(start[1], center[1]), RSub(start[2], center[2])) = Zero
          \/ hypot(RSub(end[1], center[1]), RSub(end[2], center[2])) = Zero
    THEN [raised |-> "ValueError", points |-> <<>>, sweep |-> Zero,
          max_seg_angle |-> Zero, segments |-> 0]
    ELSE IF arc_sweep(start, end, center, clockwise) = Zero
    THEN [raised |-> "", points |-> <<>>, sweep |-> Zero,
          max_seg_angle |-> Zero, segments |-> 0]
    ELSE arc_cut(start, center,
                 hypot(RSub(start[1], center[1]), RSub(start[2], center[2])),
                 arc_sweep(start, end, center, clockwise),
                 max_seg_angle(tolerance,
                     hypot(RSub(start[1], center[1]), RSub(start[2], center[2]))))

\* is_clockwise (lines 163-171): the sign of the 2D cross product
is_clockwise(start, end, c) ==
    RLt(RSub(RMul(RSub(start[1], c[1]), RSub(end[2], c[2])),
             RMul(RSub(start[2], c[2]), RSub(end[1], c[1]))), Zero)

\* Lines 145-183 of compute_arc_center_from_r, chord_len being the length of
\* the chord and h the distance from its midpoint to the centre.
center_choice(start, end, r, clockwise, chord_len, h) ==
    LET dx == RSub(end[1], start[1])
        dy == RSub(end[2], start[2])
        mx == RDiv(RAdd(start[1], end[1]), R(2))
        my == RDiv(RAdd(start[2], end[2]), R(2))
        nx == RDiv(RSub(Zero, dy), chord_len)
        ny == RDiv(dx, chord_len)
        c1 == <<RAdd(mx, RMul(nx, h)), RAdd(my, RMul(ny, h))>>
        c2 == <<RSub(mx, RMul(nx, h)), RSub(my, RMul(ny, h))>>
        center == IF clockwise = is_clockwise(start, end, c1) THEN c1 ELSE c2
    IN  IF RLt(r, Zero) THEN (IF center = c1 THEN c2 ELSE c1) ELSE center

\* compute_arc_center_from_r (lines 105-183): [raised, center]
compute_arc_center_from_r(start, end, r, clockwise) ==
    LET chord_len == hypot(RSub(end[1], start[1]), RSub(end[2], start[2]))
    IN  IF chord_len = Zero \/ RLt(RMul(R(2), RAbs(r)), chord_len)
        THEN [raised |-> "ValueError", center |-> None]
        ELSE [raised |-> "",
              center |-> center_choice(start, end, r, clockwise, chord_len,
                             RSqrt(RSub(RMul(r, r),
                                        RMul(RDiv(chord_len, R(2)), RDiv(chord_len, R(2))))))]

-----------------------------------------------------------------------------
(* interpreter.py: CNCInterpreter.  A parsed line is None (blank line) or    *)
(* Some([gcodes, words]): gcodes the G numbers in the order written, words   *)
(* the other letters as <<letter, value>> pairs in the order written (the    *)
(* order in which parse_gcode_line fills its dict), no letter twice.         *)
(* interpret gives [state, raised, returned, primitives]: the modal state    *)
(* it leaves, the exception it raised ("" for none), the value it returned   *)
(* (None, or Some(list)) and the local list of primitives it had built.      *)

NoMotion == "None"      \* motion_mode = None (modal_state.py:76)

\* f"G{gcode}" (lines 231, 235, 239)
GName(gcode) ==
    CASE gcode = 17 -> "G17" [] gcode = 18 -> "G18" [] gcode = 19 -> "G19"
      [] gcode = 20 -> "G20" [] gcode = 21 -> "G21"
      [] gcode = 90 -> "G90" [] gcode = 91 -> "G91"

\* apply_work_offset (lines 31-43)
apply_work_offset(st, position) ==
    [k \in 1..3 |-> RAdd(position[k], st.work_offsets[st.active_wcs][k])]

\* _handle_g (lines 213-239); a G-code of no branch changes nothing.
handle_g(st, gcode) ==
    IF gcode \in {0, 1}
    THEN [st EXCEPT !.motion_mode = IF gcode = 0 THEN RAPID ELSE LINEAR]
    ELSE IF gcode \in {2, 3}
    THEN [st EXCEPT !.motion_mode = IF gcode = 2 THEN ARC_CW ELSE ARC_CCW]
    ELSE IF gcode \in {90, 91} THEN set_distance_mode(st, GName(gcode))
    ELSE IF gcode \in {20, 21} THEN set_units(st, GName(gcode))
    ELSE IF gcode \in {17, 18, 19} THEN set_plane(st, GName(gcode))
    ELSE st

\* for g in gcodes: self._handle_g(g) (lines 72-73)
RECURSIVE handle_gcodes(_, _)
handle_gcodes(st, gcodes) ==
    IF gcodes = <<>> THEN st ELSE handle_gcodes(handle_g(st, gcodes[1]), Tail(gcodes))

\* The plane's axes (lines 102-112): [ax, ay, az, ia, ib], axes counted from 1.
plane_axes(plane) ==
    CASE plane = "G17" -> [ax |-> 1, ay |-> 2, az |-> 3, ia |-> "I", ib |-> "J"]
      [] plane = "G18" -> [ax |-> 1, ay |-> 3, az |-> 2, ia |-> "I", ib |-> "K"]
      [] plane = "G19" -> [ax |-> 2, ay |-> 3, az |-> 1, ia |-> "J", ib |-> "K"]

\* target.get(letter, 0.0)
get(target, letter) == IF letter \in DOMAIN target THEN target[letter] ELSE Zero

\* Lines 117-131: [raised, center]
arc_center(st, pl, start, end, target) ==
    IF "R" \in DOMAIN target
    THEN compute_arc_center_from_r(<<start[pl.ax], start[pl.ay]>>, <<end[pl.ax], end[pl.ay]>>,
                                   RMul(target["R"], st.units_scale),
                                   st.motion_mode = ARC_CW)
    ELSE [raised |-> "",
          center |-> <<RAdd(start[pl.ax], RMul(get(target, pl.ia), st.units_scale)),
                       RAdd(start[pl.ay], RMul(get(target, pl.ib), st.units_scale))>>]

\* The sum of the chords between the first n of the points (lines 143-147 with
\* n = len(points); lines 165-168 for traveled_xy at the n-th point).
RECURSIVE chord_sum(_, _)
chord_sum(points, n) ==
    IF n <= 1 THEN Zero
    ELSE RAdd(chord_sum(points, n - 1),
              hypot(RSub(points[n][1], points[n - 1][1]),
                    RSub(points[n][2], points[n - 1][2])))

\* frac at the i-th point, counted from 1 (lines 164-171)
arc_fraction(points, i) ==
    IF RLt(Zero, chord_sum(points, Len(points)))
    THEN RDiv(chord_sum(points, i), chord_sum(points, Len(points)))
    ELSE R(1)

\* next_pt at the i-th point (lines 159-173)
arc_next_pt(pl, points, i, z0, dz_total) ==
    [k \in 1..3 |->
        IF k = pl.ax THEN points[i][1]
        ELSE IF k = pl.ay THEN points[i][2]
        ELSE RAdd(z0, RMul(dz_total, arc_fraction(points, i)))]

\* The loop of lines 158-191: one Linear primitive for each point, from the
\* point before it (start for the first).
arc_primitives(st, pl, start, end, points) ==
    [i \in 1..Len(points) |->
        MotionPrimitive(LINEAR,
            IF i = 1 THEN start
            ELSE arc_next_pt(pl, points, i - 1, start[pl.az], RSub(end[pl.az], start[pl.az])),
            arc_next_pt(pl, points, i, start[pl.az], RSub(end[pl.az], start[pl.az])),
            Some(st.feedrate))]

\* The arc branch (lines 95-191) once the centre is known: [raised, primitives]
arc_segmented(st, pl, start, end, sa) ==
    IF sa.raised # "" THEN [raised |-> sa.raised, primitives |-> <<>>]
    ELSE [raised |-> "", primitives |-> arc_primitives(st, pl, start, end, sa.points)]

arc_motion(st, pl, start, end, c) ==
    IF c.raised # "" THEN [raised |-> c.raised, primitives |-> <<>>]
    ELSE arc_segmented(st, pl, start, end,
             segment_arc(<<start[pl.ax], start[pl.ay]>>, <<end[pl.ax], end[pl.ay]>>,
                         c.center, st.motion_mode = ARC_CW, st.arc_tolerance))

\* The linear / rapid branch (lines 194-211): [raised, primitives].  Reading
\* state.max_segment_time raises when the attribute was never set.
linear_primitives(st, segments) ==
    [i \in 1..Len(segments) |->
        MotionPrimitive(st.motion_mode, segments[i][1], segments[i][2], Some(st.feedrate))]

linear_motion(st, start, end) ==
    IF st.max_segment_time = None
    THEN [raised |-> "AttributeError", primitives |-> <<>>]
    ELSE [raised |-> "",
          primitives |-> linear_primitives(st,
              segment_linear(start, end, st.feedrate, st.max_segment_time[1]))]

\* Lines 86-211, which stand inside the loop over the words: the primitives
\* built for the target as it is after the current word.
generate_motion(st, target, resolved) ==
    IF resolved.raised # "" THEN [raised |-> resolved.raised, primitives |-> <<>>]
    ELSE IF st.motion_mode \in {ARC_CW, ARC_CCW}
    THEN arc_motion(st, plane_axes(st.plane), apply_work_offset(st, st.position),
                    apply_work_offset(st, resolved.value),
                    arc_center(st, plane_axes(st.plane),
                               apply_work_offset(st, st.position),
                               apply_work_offset(st, resolved.value), target))
    ELSE linear_motion(st, apply_work_offset(st, st.position),
                       apply_work_offset(st, resolved.value))

GeometryWords == {"X", "Y", "Z", "I", "J", "K", "R"}

\* The loop over the words (lines 76-211).  After the last word the function
\* ends without a return statement: it returns None, and the list it built is
\* dropped.  The stored position is assigned nowhere.
RECURSIVE interpret_words(_, _, _, _)
interpret_step(st, words, target, primitives, m) ==
    IF m.raised # ""
    THEN [state |-> st, raised |-> m.raised, returned |-> None, primitives |-> primitives]
    ELSE interpret_words(st, Tail(words), target, primitives \o m.primitives)

interpret_word(st, words, target, primitives) ==
    interpret_step(st, words, target, primitives,
                   generate_motion(st, target, resolve_target(st, target)))

interpret_words(st, words, target, primitives) ==
    IF words = <<>>
    THEN [state |-> st, raised |-> "", returned |-> None, primitives |-> primitives]
    ELSE interpret_word(
             IF words[1][1] = "F" THEN update_feedrate(st, words[1][2]) ELSE st,
             words,
             IF words[1][1] \in GeometryWords
             THEN put(target, words[1][1], words[1][2]) ELSE target,
             primitives)

\* interpret (lines 45-211)
cnc_interpret(st, parsed) ==
    IF parsed = None
    THEN [state |-> st, raised |-> "", returned |-> Some(<<>>), primitives |-> <<>>]
    ELSE interpret_words(handle_gcodes(st, parsed[1].gcodes), parsed[1].words, NoWords, <<>>)

-----------------------------------------------------------------------------
(* controller.py: CNCController in planned mode (planner is not None).       *)
(* The operations are functions of the world w = [planner, ctrl, streamer,   *)
(* executed, hist] and return the world after the call, with the call's      *)
(* result in the fields raised / did / lines_read / steps.                   *)

IDLE == "idle"
RUNNING == "running"
HOLD == "hold"
CANCELLED == "cancelled"

LookaheadSize == 20
REPORT_STEP == 10

\* __init__ (lines 63-94)
CNCController ==
    [state |-> IDLE, ready_queue |-> <<>>, lookahead_size |-> LookaheadSize,
     eof |-> FALSE, completed_length |-> 0, last_reported |-> -1]

World == [planner |-> planner, ctrl |-> ctrl, streamer |-> streamer,
          executed |-> executed, hist |-> hist]

\* streamer.next_line() on a file with st.remaining executable lines left, the
\* next ones being batch[k], batch[k+1], ...: [streamer, line], line = None at
\* end of file.  The file of the model holds executable lines only: the blank
\* and comment lines next_line skips are left out of it.
next_line(st, batch, k) ==
    IF st.eof \/ ~st.open THEN [streamer |-> st, line |-> None]
    ELSE IF st.remaining = 0
         THEN [streamer |-> [st EXCEPT !.eof = TRUE], line |-> None]
         ELSE [streamer |-> [st EXCEPT !.remaining = @ - 1, !.line_number = @ + 1],
               line |-> Some(batch[k])]

\* The interpreter handed to pump, through its interface (controller.py:224):
\* interpret(parsed) returns a list of MotionPrimitives.  A line is the list of
\* moves [d, motion, feedrate] it stands for; the primitives are chained from
\* pos, the end of the last primitive returned.
RECURSIVE interpret(_, _)
interpret(pos, line) ==
    IF line = <<>> THEN <<>>
    ELSE LET mv == line[1]
             end == <<pos[1] + mv.d[1], pos[2] + mv.d[2], pos[3] + mv.d[3]>>
         IN  <<MotionPrimitive(mv.motion, pos, end, mv.feedrate)>> \o interpret(end, Tail(line))

end_of(pos, prims) == IF prims = <<>> THEN pos ELSE prims[Len(prims)].end

\* for p in prims: committed = self.planner.push(p); ready_queue.extend(committed)
\* One round of that loop (lines 226-228), r being what planner.push(p) gave.
extend_committed(w, p, r) ==
    [w EXCEPT !.planner = r.pl,
              !.ctrl.ready_queue = @ \o r.out,
              !.hist.pushed = Append(@, p),
              !.hist.emitted = @ \o r.out]

RECURSIVE push_all(_, _)
push_all(w, prims) ==
    IF prims = <<>> THEN w
    ELSE push_all(extend_committed(w, prims[1], planner_push(w.planner, prims[1])),
                  Tail(prims))

\* A refill loop that does not look at eof.
refill_guard_after_eof(w, lines_read, max_lines) ==
    /\ Len(w.ctrl.ready_queue) < w.ctrl.lookahead_size
    /\ lines_read < max_lines

\* A refill loop that does not look at the length of the ready queue.
refill_guard_any_queue(w, lines_read, max_lines) ==
    /\ ~w.ctrl.eof
    /\ lines_read < max_lines

\* Whether the refill loop of pump goes round once more (lines 213-215).
refill_guard(w, lines_read, max_lines) ==
    /\ ~w.ctrl.eof
    /\ Len(w.ctrl.ready_queue) < w.ctrl.lookahead_size
    /\ lines_read < max_lines

\* The refill loop of pump (lines 213-229); batch holds the lines the file
\* yields next.  Returns the world with lines_read.
\* An end of file that sets eof and leaves the planner alone.
refill_eof_unfinished(w, st, f) ==
    [w EXCEPT !.streamer = st, !.ctrl.eof = TRUE]

\* line is None (lines 217-221): eof is set and f, what planner.finish() gave,
\* is appended to the ready queue.
refill_eof(w, st, f) ==
    [w EXCEPT !.streamer = st,
              !.ctrl.eof = TRUE,
              !.planner = f.pl,
              !.ctrl.ready_queue = @ \o f.out,
              !.hist.emitted = @ \o f.out,
              !.hist.finish_calls = @ + 1]

\* A line was read (lines 223-228): prims is what interpret returned for it.
refill_line(w, st, prims) ==
    push_all([w EXCEPT !.streamer = st, !.hist.pos = end_of(@, prims)], prims)

RECURSIVE refill(_, _, _, _)
RECURSIVE refill_next(_, _, _, _, _)
refill_next(w, batch, lines_read, max_lines, nl) ==
    IF nl.line = None
    THEN [w |-> refill_eof(w, nl.streamer, planner_finish(w.planner)),
          lines_read |-> lines_read]
    ELSE refill(refill_line(w, nl.streamer, interpret(w.hist.pos, nl.line[1])),
                batch, lines_read + 1, max_lines)

refill(w, batch, lines_read, max_lines) ==
    IF ~refill_guard(w, lines_read, max_lines) THEN [w |-> w, lines_read |-> lines_read]
    ELSE refill_next(w, batch, lines_read, max_lines,
                     next_line(w.streamer, batch, lines_read + 1))

\* _execute_primitive (lines 344-367): [w, raised]; the return value is True.
execute_primitive(w, p) ==
    IF p.feedrate = None
    THEN [w |-> [w EXCEPT !.hist.handed = Append(@, p)], raised |-> TRUE]
    ELSE LET done == w.ctrl.completed_length + length(p)
         IN  [w |-> [w EXCEPT !.executed = Append(@, p),
                              !.hist.handed = Append(@, p),
                              !.ctrl.completed_length = done,
                              !.ctrl.last_reported =
                                  IF done - @ >= REPORT_STEP THEN done ELSE @],
              raised |-> FALSE]

\* A step without the state check of lines 320-321.
step_any_state(w) ==
    IF w.ctrl.ready_queue = <<>> THEN [w |-> w, did |-> FALSE, raised |-> FALSE]
    ELSE LET item == Head(w.ctrl.ready_queue)
             w1 == [w EXCEPT !.ctrl.ready_queue = Tail(@)]
             e == execute_primitive(w1, item.primitive)
         IN  [w |-> e.w, did |-> ~e.raised, raised |-> e.raised]

\* step (lines 314-342): [w, did, raised]
step(w) ==
    IF w.ctrl.state # RUNNING THEN [w |-> w, did |-> FALSE, raised |-> FALSE]
    ELSE IF w.ctrl.ready_queue = <<>> THEN [w |-> w, did |-> FALSE, raised |-> FALSE]
    ELSE LET item == Head(w.ctrl.ready_queue)
             w1 == [w EXCEPT !.ctrl.ready_queue = Tail(@)]
             e == execute_primitive(w1, item.primitive)
         IN  [w |-> e.w, did |-> ~e.raised, raised |-> e.raised]

\* The execute loop of pump (lines 233-237): [w, steps, raised]
RECURSIVE execute_steps(_, _, _)
execute_steps(w, steps, max_steps) ==
    IF steps >= max_steps THEN [w |-> w, steps |-> steps, raised |-> FALSE]
    ELSE LET s == step(w)
         IN  IF s.raised THEN [w |-> s.w, steps |-> steps, raised |-> TRUE]
             ELSE IF ~s.did THEN [w |-> s.w, steps |-> steps, raised |-> FALSE]
             ELSE execute_steps(s.w, steps + 1, max_steps)

\* pump (lines 188-239): [w, lines_read, steps, raised]
pump_result(f, x) ==
    [w |-> x.w, lines_read |-> f.lines_read, steps |-> x.steps, raised |-> x.raised]

\* The second half of pump (lines 231-239), f being what the refill loop left.
pump_execute(f, max_steps) ==
    IF f.w.ctrl.state = RUNNING /\ max_steps > 0
    THEN pump_result(f, execute_steps(f.w, 0, max_steps))
    ELSE [w |-> f.w, lines_read |-> f.lines_read, steps |-> 0, raised |-> FALSE]

pump(w, batch, max_lines, max_steps) ==
    pump_execute(refill(w, batch, 0, max_lines), max_steps)

\* run_stream (lines 106-186), one round of its while True at a time:
\* [w, run], run being where the call is afterwards.

\* An exit that leaves the streamer open.
run_stream_exit_unclosed(w, how) == [w |-> w, run |-> how]

\* finally: streamer.close() (lines 184-186), the loop having been left by
\* break ("returned") or by an exception ("raised").
run_stream_exit(w, how) == [w |-> [w EXCEPT !.streamer.open = FALSE], run |-> how]

\* Lines 167-182, s being what step() gave.
run_stream_stepped(s) ==
    IF s.raised THEN run_stream_exit(s.w, "raised")
    ELSE IF ~s.did /\ s.w.ctrl.eof /\ s.w.ctrl.ready_queue = <<>>
         THEN run_stream_exit(s.w, "returned")
         ELSE [w |-> s.w, run |-> "loop"]

\* Lines 164-182, w being the world the fill loop left.
run_stream_filled(w) ==
    IF w.ctrl.state # RUNNING THEN [w |-> w, run |-> "loop"]
    ELSE run_stream_stepped(step(w))

\* The fill loop of lines 143-162: the refill loop of pump with no limit on
\* the lines read.
run_stream_fill(w, batch) == refill(w, batch, 0, w.streamer.remaining + 1).w

\* One round of the loop (lines 121-182).
run_stream_round(w, batch) ==
    IF w.ctrl.state = CANCELLED THEN run_stream_exit(w, "returned")
    ELSE run_stream_filled(run_stream_fill(w, batch))

\* is_done (lines 241-248)
is_done(c) == c.eof /\ c.ready_queue = <<>>

\* A start that does not look at the state.
start_unchecked(c) == [ctrl |-> [c EXCEPT !.state = RUNNING], raised |-> FALSE]

\* start (lines 254-262): [ctrl, raised]
start(c) ==
    IF c.state = CANCELLED THEN [ctrl |-> c, raised |-> TRUE]
    ELSE [ctrl |-> [c EXCEPT !.state = RUNNING], raised |-> FALSE]

\* feed_hold (lines 264-271)
feed_hold(c) == IF c.state = RUNNING THEN [c EXCEPT !.state = HOLD] ELSE c

\* A resume that does not look at the state.
resume_unguarded(c) == [c EXCEPT !.state = RUNNING]

\* resume (lines 273-279)
resume(c) == IF c.state = HOLD THEN [c EXCEPT !.state = RUNNING] ELSE c

\* cancel (lines 302-308)
cancel(c) == IF c.state # CANCELLED THEN [c EXCEPT !.state = CANCELLED] ELSE c

\* A reset that leaves the ready queue as it is.
reset_keeping_queue(c) ==
    [c EXCEPT !.state = IDLE, !.eof = FALSE, !.completed_length = 0, !.last_reported = -1]

\* reset (lines 281-300): the controller fields; the planner is reset with it.
reset(c) ==
    [c EXCEPT !.state = IDLE, !.ready_queue = <<>>, !.eof = FALSE,
              !.completed_length = 0, !.last_reported = -1]

-----------------------------------------------------------------------------
(* Inputs and bounds.                                                        *)

MaxLines == 3       \* lines in the file
MaxLinesArg == 2    \* largest max_lines passed to pump
MaxStepsArg == 2    \* largest max_steps passed to pump
MaxPushes == 4      \* pushes made on the planner alone

\* Moves [d, motion, feedrate]: the displacements have integer lengths and
\* pairwise turning angles whose half-angle sine and cosine are rational
\* (0, 3/5, 4/5, 1), so every square root the planner takes is exact.
MvLong == [d |-> <<25, 0, 0>>, motion |-> LINEAR, feedrate |-> Some(600)]
MvShort == [d |-> <<4, 0, 0>>, motion |-> LINEAR, feedrate |-> Some(360)]
MvTurn == [d |-> <<7, 24, 0>>, motion |-> LINEAR, feedrate |-> None]
MvBack == [d |-> <<-25, 0, 0>>, motion |-> RAPID, feedrate |-> Some(1200)]
MvRapidNoFeed == [d |-> <<-7, -24, 0>>, motion |-> RAPID, feedrate |-> None]
MvZero == [d |-> <<0, 0, 0>>, motion |-> LINEAR, feedrate |-> Some(600)]

\* What pushes the planner is given directly.
MoveKinds == {MvLong, MvShort, MvTurn, MvBack, MvZero}

\* What a line of the file can stand for (a modal-only line gives no primitive).
LineKinds == {<<>>, <<MvLong, MvZero>>, <<MvRapidNoFeed>>}

\* Planner configurations (speeds in mm/s, accelerations in mm/s^2).
StreamCfg == CNCPlanner(R(10), R(2), Rat(1, 2), Rat(1, 2), 1, 200, None)
TailCfg == CNCPlanner(R(10), R(2), Rat(1, 2), R(3), 2, 200, None)
AxisCfg == CNCPlanner(R(10), R(2), Rat(1, 2), Zero, 0, 10, Some(<<R(2), R(1), R(1)>>))
PlannerConfigs == {StreamCfg, TailCfg, AxisCfg}

Origin == <<0, 0, 0>>

NoCall == [op |-> "init", pre |-> IDLE, raised |-> FALSE, lines_read |-> 0,
           steps |-> 0, did |-> FALSE, out |-> <<>>, pending |-> 0]

NewJob(pos) ==
    [pos |-> pos, pushed |-> <<>>, emitted |-> <<>>, handed |-> <<>>,
     finish_calls |-> 0, npush |-> 0]

-----------------------------------------------------------------------------
(* cnc_mode.py: CNCMode, the timer-driven runner and its commands.  The      *)
(* operations are functions of m = [w, mode]: the world of the controller    *)
(* and the runner's own fields                                               *)
(*   job_state     _job_state: "idle" | "running" | "hold" | "draining"      *)
(*   has_streamer  _streamer is not None                                     *)
(*   timer         when the work timer fires next: "never" | "now" |         *)
(*                 "pump" (pump_interval later) | "drain"                    *)
(*                 (drain_check_interval later)                              *)
(*   buf           executor.buffer_time(now), in milliseconds                *)
(*   report        the last thing told to the host or the log: "started",    *)
(*                 "hold", "resume", "cancelled", "reset", "complete",       *)
(*                 "error"                                                   *)

\* Runner tuning (lines 71-75).  The two pump limits are configuration values.
max_lines_per_pump == 1
max_steps_per_pump == 1
max_toolhead_buffer_time == 250
DrainedBelow == 10

\* __init__ (lines 29-82)
CNCMode ==
    [job_state |-> "idle", has_streamer |-> FALSE, timer |-> "never", buf |-> 0,
     report |-> ""]

\* The levels executor.buffer_time takes (ms): on and each side of the two
\* thresholds it is compared with.
BufLevels == {0, DrainedBelow, DrainedBelow + 1, max_toolhead_buffer_time + 1}

\* What buffer_time can read after `steps` moves were handed to the toolhead
\* within one timer event (klipper_executor.py:32-40: last move time less the
\* estimated print time, which is the same for one eventtime).
after_moves(buf, steps) ==
    IF steps = 0 THEN {buf} ELSE {b \in BufLevels : b >= buf /\ b > 0}

\* CNCModalState.reset(), called at lines 131 and 174.  modal_state.py defines
\* no such method; it is modelled as what a clean run needs of it: the
\* program position goes back to the origin.
modal_state_reset(w) == [w EXCEPT !.hist.pos = Origin]

\* controller.reset() on the world: the controller, its planner and the
\* records of the job.
controller_reset(w) ==
    [w EXCEPT !.ctrl = reset(@), !.planner = planner_reset(@),
              !.executed = <<>>, !.hist = NewJob(@.pos)]

\* GCodeStreamer(filepath) followed by open() (streamer.py:13-38) on a file of
\* `lines` executable lines.
GCodeStreamer(lines) ==
    [remaining |-> lines, line_number |-> 0, eof |-> FALSE, open |-> TRUE]

\* _stop_job (lines 178-187)
stop_job(m, why) ==
    [m EXCEPT !.w.streamer.open = FALSE,
              !.mode.has_streamer = FALSE, !.mode.job_state = "idle",
              !.mode.timer = "never", !.mode.report = why]

\* The end of cmd_start (lines 138-142), s being what controller.start() gave.
cmd_start_started(m, s) ==
    IF s.raised THEN [m |-> [m EXCEPT !.w.ctrl = s.ctrl], raised |-> TRUE]
    ELSE [m |-> [m EXCEPT !.w.ctrl = s.ctrl, !.mode.job_state = "running",
                          !.mode.report = "started", !.mode.timer = "now"],
          raised |-> FALSE]

\* Lines 130-136 of cmd_start: the clean run and the new streamer.
cmd_start_clean(m, lines) ==
    [m EXCEPT !.w = [controller_reset(modal_state_reset(@))
                         EXCEPT !.streamer = GCodeStreamer(lines)],
              !.mode.has_streamer = TRUE]

\* A cmd_start that does not look at the job state.
cmd_start_any_state(m, found, lines) ==
    IF ~found THEN [m |-> m, raised |-> TRUE]
    ELSE cmd_start_started(cmd_start_clean(m, lines),
                           start(cmd_start_clean(m, lines).w.ctrl))

\* cmd_start (lines 115-142): [m, raised].  found: a FILE was named and it
\* exists; lines: the executable lines it holds.
cmd_start(m, found, lines) ==
    IF m.mode.job_state # "idle" THEN [m |-> m, raised |-> TRUE]
    ELSE IF ~found THEN [m |-> m, raised |-> TRUE]
    ELSE cmd_start_started(cmd_start_clean(m, lines),
                           start(cmd_start_clean(m, lines).w.ctrl))

\* A cmd_hold that takes a running job only.
cmd_hold_running_only(m) ==
    IF m.mode.job_state # "running" THEN m
    ELSE [m EXCEPT !.w.ctrl = feed_hold(@), !.mode.job_state = "hold",
                   !.mode.report = "hold", !.mode.timer = "now"]

\* cmd_hold (lines 144-151)
cmd_hold(m) ==
    IF m.mode.job_state \notin {"running", "draining"} THEN m
    ELSE [m EXCEPT !.w.ctrl = feed_hold(@), !.mode.job_state = "hold",
                   !.mode.report = "hold", !.mode.timer = "now"]

\* A CNC_RESUME that marks the job running without resuming the controller.
cmd_resume_job_only(m) ==
    IF m.mode.job_state # "hold" THEN m
    ELSE [m EXCEPT !.mode.job_state = "running",
                   !.mode.report = "resume", !.mode.timer = "now"]

\* cmd_resume (lines 153-160)
cmd_resume(m) ==
    IF m.mode.job_state # "hold" THEN m
    ELSE [m EXCEPT !.w.ctrl = resume(@), !.mode.job_state = "running",
                   !.mode.report = "resume", !.mode.timer = "now"]

\* cmd_cancel (lines 162-168)
cmd_cancel(m) ==
    IF m.mode.job_state = "idle" THEN m
    ELSE stop_job([m EXCEPT !.w.ctrl = cancel(@)], "cancelled")

\* cmd_reset (lines 170-176)
cmd_reset(m) ==
    [[(IF m.mode.job_state # "idle" THEN stop_job(m, "reset") ELSE m)
         EXCEPT !.w = controller_reset(modal_state_reset(@))]
         EXCEPT !.mode.report = "reset"]

\* A handler that never finds the toolhead over-buffered.
over_buffered_never(buf) == FALSE

\* if buf > self.max_toolhead_buffer_time (line 201), in milliseconds
over_buffered(buf) == buf > max_toolhead_buffer_time

\* A drain check that any buffer passes.
drained_always(buf2) == TRUE

\* if buf2 <= 0.010 (line 222), in milliseconds
drained(buf2) == buf2 <= DrainedBelow

\* An except branch that also cancels the controller.
work_failed_cancelling(m) ==
    stop_job([m EXCEPT !.w.ctrl = cancel(@)], "error")

\* The except branch of _work_handler (lines 231-236).
work_failed(m) == stop_job(m, "error")

\* Lines 219-229 of _work_handler, the job state being what line 217 left and
\* buf2 what buffer_time reads now.
work_drain(m, buf2) ==
    IF m.mode.job_state = "draining"
    THEN IF drained(buf2) THEN stop_job([m EXCEPT !.mode.buf = buf2], "complete")
         ELSE [m EXCEPT !.mode.buf = buf2, !.mode.timer = "drain"]
    ELSE [m EXCEPT !.mode.buf = buf2, !.mode.timer = "pump"]

\* Lines 215-229 of _work_handler, r being what controller.pump gave; an
\* exception out of pump goes to the except branch.
work_pumped(m, r, buf2) ==
    IF r.raised THEN work_failed([m EXCEPT !.w = r.w, !.mode.buf = buf2])
    ELSE work_drain([m EXCEPT !.w = r.w,
                              !.mode.job_state =
                                  IF @ # "hold" /\ is_done(r.w.ctrl) THEN "draining" ELSE @],
                    buf2)

\* A pump that fills the lookahead and never executes.
work_pump_filling_only(m, batch) ==
    pump(m.w, batch, max_lines_per_pump, 0)

\* The pump of lines 204-213.
work_pump(m, batch) ==
    pump(m.w, batch, max_lines_per_pump,
         IF m.mode.job_state = "hold" THEN 0 ELSE max_steps_per_pump)

\* _work_handler (lines 189-236) up to the pump: [m, pumps]; pumps says the
\* handler goes on to pump the controller.
work_handler(m) ==
    IF m.mode.job_state = "idle" THEN [m |-> [m EXCEPT !.mode.timer = "never"], pumps |-> FALSE]
    ELSE IF m.w.ctrl.state = CANCELLED THEN [m |-> stop_job(m, "cancelled"), pumps |-> FALSE]
    ELSE IF over_buffered(m.mode.buf) THEN [m |-> [m EXCEPT !.mode.timer = "pump"], pumps |-> FALSE]
    ELSE [m |-> m, pumps |-> TRUE]

-----------------------------------------------------------------------------
(* Spec: the controller driven through its public calls.                     *)

Init ==
    /\ planner = StreamCfg
    /\ ctrl = CNCController
    /\ streamer \in [remaining : 0..MaxLines, line_number : {0}, eof : {FALSE},
                    open : {TRUE}]
    /\ executed = <<>>
    /\ hist = NewJob(Origin)
    /\ call = NoCall
    /\ mode = CNCMode
    /\ run = "out"
    /\ state = CNCModalState

SetWorld(w) ==
    /\ planner' = w.planner
    /\ ctrl' = w.ctrl
    /\ streamer' = w.streamer
    /\ executed' = w.executed
    /\ hist' = w.hist

\* How many lines a pump with this max_lines can read from the file.
lines_ahead(max_lines) ==
    IF ctrl.eof \/ streamer.eof THEN 0
    ELSE IF max_lines <= streamer.remaining THEN max_lines ELSE streamer.remaining

Pump ==
    \E max_lines \in 0..MaxLinesArg, max_steps \in 0..MaxStepsArg :
      \E batch \in [1..lines_ahead(max_lines) -> LineKinds] :
        \E r \in {pump(World, batch, max_lines, max_steps)} :
            /\ SetWorld(r.w)
            /\ call' = [NoCall EXCEPT !.op = "pump", !.pre = ctrl.state,
                                      !.raised = r.raised,
                                      !.lines_read = r.lines_read, !.steps = r.steps]
            /\ UNCHANGED <<mode, run, state>>

Step ==
    \E s \in {step(World)} :
        /\ SetWorld(s.w)
        /\ call' = [NoCall EXCEPT !.op = "step", !.pre = ctrl.state,
                                  !.raised = s.raised, !.did = s.did]
        /\ UNCHANGED <<mode, run, state>>

Start ==
    \E r \in {start(ctrl)} :
        /\ ctrl' = r.ctrl
        /\ call' = [NoCall EXCEPT !.op = "start", !.pre = ctrl.state, !.raised = r.raised]
        /\ UNCHANGED <<planner, streamer, executed, hist, mode, run, state>>

FeedHold ==
    /\ ctrl' = feed_hold(ctrl)
    /\ call' = [NoCall EXCEPT !.op = "feed_hold", !.pre = ctrl.state]
    /\ UNCHANGED <<planner, streamer, executed, hist, mode, run, state>>

Resume ==
    /\ ctrl' = resume(ctrl)
    /\ call' = [NoCall EXCEPT !.op = "resume", !.pre = ctrl.state]
    /\ UNCHANGED <<planner, streamer, executed, hist, mode, run, state>>

Cancel ==
    /\ ctrl' = cancel(ctrl)
    /\ call' = [NoCall EXCEPT !.op = "cancel", !.pre = ctrl.state]
    /\ UNCHANGED <<planner, streamer, executed, hist, mode, run, state>>

\* reset clears the controller and its planner and leaves the streamer as it
\* is.  The records of the job (executed, hist) start afresh with it, the
\* interpreter's position included: a job is started on a reset modal state
\* (cnc_mode.py:131-132).
Reset ==
    /\ ctrl' = reset(ctrl)
    /\ planner' = planner_reset(planner)
    /\ executed' = <<>>
    /\ hist' = NewJob(Origin)
    /\ call' = [NoCall EXCEPT !.op = "reset", !.pre = ctrl.state,
                              !.pending = Len(ctrl.ready_queue) + Len(planner.window)]
    /\ UNCHANGED <<streamer, mode, run, state>>

Next == Pump \/ Step \/ Start \/ FeedHold \/ Resume \/ Cancel \/ Reset

Spec == Init /\ [][Next]_vars

-----------------------------------------------------------------------------
(* PlannerSpec: the planner alone, driven by push / finish / reset.          *)

PlannerInit ==
    /\ planner \in PlannerConfigs
    /\ ctrl = CNCController
    /\ streamer = [remaining |-> 0, line_number |-> 0, eof |-> FALSE, open |-> FALSE]
    /\ executed = <<>>
    /\ hist = NewJob(Origin)
    /\ call = NoCall
    /\ mode = CNCMode
    /\ run = "out"
    /\ state = CNCModalState

Push ==
    \E mv \in MoveKinds :
      /\ hist.npush < MaxPushes
      /\ \E prim \in {interpret(hist.pos, <<mv>>)[1]} :
           \E r \in {planner_push(planner, prim)} :
             /\ planner' = r.pl
             /\ hist' = [hist EXCEPT !.pos = prim.end,
                                     !.pushed = Append(@, prim),
                                     !.emitted = @ \o r.out,
                                     !.npush = @ + 1]
             /\ call' = [NoCall EXCEPT !.op = "push", !.out = r.out]
      /\ UNCHANGED <<ctrl, streamer, executed, mode, run, state>>

Finish ==
    \E r \in {planner_finish(planner)} :
        /\ planner' = r.pl
        /\ hist' = [hist EXCEPT !.emitted = @ \o r.out]
        /\ call' = [NoCall EXCEPT !.op = "finish", !.out = r.out]
        /\ UNCHANGED <<ctrl, streamer, executed, mode, run, state>>

PlannerReset ==
    /\ planner' = planner_reset(planner)
    /\ hist' = [NewJob(Origin) EXCEPT !.npush = hist.npush]
    /\ call' = [NoCall EXCEPT !.op = "planner_reset"]
    /\ UNCHANGED <<ctrl, streamer, executed, mode, run, state>>

PlannerNext == Push \/ Finish \/ PlannerReset

PlannerSpec == PlannerInit /\ [][PlannerNext]_vars

-----------------------------------------------------------------------------
(* RunStreamSpec: a controller is constructed, commanded, and then           *)
(* run_stream is called on a closed streamer; run_stream does not return     *)
(* control until it ends, so no command is made while it runs.               *)

RunStreamInit ==
    /\ planner \in {StreamCfg, TailCfg}
    /\ ctrl = CNCController
    /\ streamer \in [remaining : 0..MaxLines, line_number : {0}, eof : {FALSE},
                    open : {FALSE}]
    /\ executed = <<>>
    /\ hist = NewJob(Origin)
    /\ call = NoCall
    /\ mode = CNCMode
    /\ run = "out"
    /\ state = CNCModalState

\* A command on the controller before run_stream is called.
Command ==
    /\ run = "out"
    /\ Start \/ FeedHold \/ Cancel

\* run_stream is entered: streamer.open() (line 118).
Enter ==
    /\ run = "out"
    /\ run' = "loop"
    /\ streamer' = [streamer EXCEPT !.open = TRUE]
    /\ call' = [NoCall EXCEPT !.op = "run_stream", !.pre = ctrl.state]
    /\ UNCHANGED <<planner, ctrl, executed, hist, mode, state>>

\* One round of the loop of run_stream.
Round ==
    /\ run = "loop"
    /\ \E batch \in [1..(IF ctrl.eof \/ streamer.eof THEN 0 ELSE streamer.remaining) -> LineKinds] :
         \E r \in {run_stream_round(World, batch)} :
           /\ SetWorld(r.w)
           /\ run' = r.run
           /\ call' = [NoCall EXCEPT !.op = "round", !.pre = ctrl.state,
                                     !.raised = (r.run = "raised")]
           /\ UNCHANGED <<mode, state>>

RunStreamNext == Command \/ Enter \/ Round

RunStreamSpec == RunStreamInit /\ [][RunStreamNext]_vars

-----------------------------------------------------------------------------
(* ModeSpec: CNCMode driven by the host's commands and the reactor's timer.  *)
(* In the call record, pre is the job state the call was made in.            *)

Runner == [w |-> World, mode |-> mode]

SetRunner(m) ==
    /\ SetWorld(m.w)
    /\ mode' = m.mode
    /\ UNCHANGED <<run, state>>

ModeInit ==
    /\ planner = StreamCfg
    /\ ctrl = CNCController
    /\ streamer = [GCodeStreamer(0) EXCEPT !.open = FALSE]
    /\ executed = <<>>
    /\ hist = NewJob(Origin)
    /\ call = NoCall
    /\ mode = CNCMode
    /\ run = "out"
    /\ state = CNCModalState

CmdStart ==
    \E found \in BOOLEAN, lines \in 0..MaxLines :
      \E r \in {cmd_start(Runner, found, lines)} :
        /\ SetRunner(r.m)
        /\ call' = [NoCall EXCEPT !.op = "CNC_START", !.pre = mode.job_state,
                                  !.raised = r.raised]

CmdHold ==
    /\ SetRunner(cmd_hold(Runner))
    /\ call' = [NoCall EXCEPT !.op = "CNC_FEED_HOLD", !.pre = mode.job_state]

CmdResume ==
    /\ SetRunner(cmd_resume(Runner))
    /\ call' = [NoCall EXCEPT !.op = "CNC_RESUME", !.pre = mode.job_state]

CmdCancel ==
    /\ SetRunner(cmd_cancel(Runner))
    /\ call' = [NoCall EXCEPT !.op = "CNC_CANCEL", !.pre = mode.job_state]

CmdReset ==
    /\ SetRunner(cmd_reset(Runner))
    /\ call' = [NoCall EXCEPT !.op = "CNC_RESET", !.pre = mode.job_state]

\* The timer fires: _work_handler runs.  did says that it pumped.
WorkHandler ==
    /\ mode.timer # "never"
    /\ \E h \in {work_handler(Runner)} :
         IF ~h.pumps
         THEN /\ SetRunner(h.m)
              /\ call' = [NoCall EXCEPT !.op = "tick", !.pre = mode.job_state]
         ELSE \E batch \in [1..lines_ahead(max_lines_per_pump) -> LineKinds] :
                \E r \in {work_pump(h.m, batch)} :
                  \E buf2 \in after_moves(mode.buf, r.steps) :
                    /\ SetRunner(work_pumped(h.m, r, buf2))
                    /\ call' = [NoCall EXCEPT !.op = "tick", !.pre = mode.job_state,
                                              !.did = TRUE, !.raised = r.raised,
                                              !.lines_read = r.lines_read,
                                              !.steps = r.steps]

\* Time passes between timer events: the toolhead works off queued motion.
Elapse ==
    /\ \E b \in BufLevels : b < mode.buf /\ mode' = [mode EXCEPT !.buf = b]
    /\ call' = [NoCall EXCEPT !.op = "elapse", !.pre = mode.job_state]
    /\ UNCHANGED <<planner, ctrl, streamer, executed, hist, run, state>>

ModeNext == CmdStart \/ CmdHold \/ CmdResume \/ CmdCancel \/ CmdReset \/ WorkHandler \/ Elapse

ModeSpec == ModeInit /\ [][ModeNext]_vars

\* ModeFairSpec: the reactor keeps firing the work timer for as long as the
\* handler re-arms it (the handler's return value and update_timer, lines 142,
\* 151, 160, 202, 228, 229), and the toolhead keeps working off what it has
\* queued.  The fairness of the timer is WF_vars(WorkHandler) written out,
\* []<>~ENABLED <<WorkHandler>>_vars \/ []<><<WorkHandler>>_vars, with a state
\* predicate in place of ENABLED: wherever TimerDue holds, a WorkHandler step
\* that changes the state is possible (it changes call.op, or reads a line,
\* sets eof, executes, or changes the job state), so the condition assumed is
\* implied by WF_vars(WorkHandler); and the steps with call'.op = "tick" are
\* the WorkHandler steps.
TimerDue ==
    /\ mode.timer # "never"
    /\ \/ call.op # "tick"
       \/ mode.job_state = "running" /\ ~over_buffered(mode.buf)
       \/ mode.job_state = "draining" /\ drained(mode.buf)

TimerFired == call'.op = "tick"

ModeFairSpec ==
    ModeSpec /\ WF_vars(Elapse) /\ ([]<>~TimerDue \/ []<><<TimerFired>>_vars)

-----------------------------------------------------------------------------
(* InterpSpec: one CNCInterpreter on its CNCModalState, fed parsed lines;    *)
(* and the direct use of the modal state that test_modal.py makes            *)
(* (resolve_target, then position = the value resolved).                     *)

MaxCoord == 1       \* largest |coordinate| (mm) test_modal's use moves the position to

\* The limits CNCMode gives its interpreter (cnc_mode.py:47-51)
soft_limits ==
    [X |-> <<Zero, R(300)>>, Y |-> <<Zero, R(300)>>, Z |-> <<R(-100), Zero>>]

Parsed(gcodes, words) == Some([gcodes |-> gcodes, words |-> words])

\* parse_gcode_line of: a blank line, "G21", "G90", "G91", "G19", "G55",
\* "G20 G1 F10 X1", "X10", "G0 X3 Y4", "G1 X-5", "G2 I1 Z-4", "G3 I1 X2 R1"
Lines ==
    {None,
     Parsed(<<21>>, <<>>), Parsed(<<90>>, <<>>), Parsed(<<91>>, <<>>),
     Parsed(<<19>>, <<>>), Parsed(<<55>>, <<>>),
     Parsed(<<20, 1>>, <<<<"F", R(10)>>, <<"X", R(1)>>>>),
     Parsed(<<>>, <<<<"X", R(10)>>>>),
     Parsed(<<0>>, <<<<"X", R(3)>>, <<"Y", R(4)>>>>),
     Parsed(<<1>>, <<<<"X", R(-5)>>>>),
     Parsed(<<2>>, <<<<"I", R(1)>>, <<"Z", R(-4)>>>>),
     Parsed(<<3>>, <<<<"I", R(1)>>, <<"X", R(2)>>, <<"R", R(1)>>>>)}

\* The targets handed to resolve_target directly
Targets ==
    {NoWords, [X |-> R(1)], [Y |-> R(1), Z |-> R(-1)]}

\* The modal state as constructed, with the two knobs as the caller left or
\* set them: max_segment_time unset or 0.1 s; arc_tolerance 100 mm, so that
\* the arcs of the model (radius 1 mm or 1 inch) are cut at half turns.
InterpInit ==
    /\ state \in {[CNCModalState EXCEPT !.max_segment_time = t, !.arc_tolerance = R(100)] :
                    t \in {None, Some(Rat(1, 10))}}
    /\ call = NoCall
    /\ planner = StreamCfg
    /\ ctrl = CNCController
    /\ streamer = [GCodeStreamer(0) EXCEPT !.open = FALSE]
    /\ executed = <<>>
    /\ hist = NewJob(Origin)
    /\ mode = CNCMode
    /\ run = "out"

Rest == <<planner, ctrl, streamer, executed, hist, mode, run>>

\* interp.interpret(parsed)
Interpret ==
    \E line \in Lines :
        \E r \in {cnc_interpret(state, line)} :
            /\ state' = r.state
            /\ call' = [op |-> "interpret", line |-> line, pre |-> state,
                        raised |-> r.raised, returned |-> r.returned,
                        primitives |-> r.primitives]
            /\ UNCHANGED Rest

\* pos = state.resolve_target(target) (test_modal.py:28, 44)
ResolveTarget ==
    \E target \in Targets :
        \E r \in {resolve_target(state, target)} :
            /\ call' = [op |-> "resolve_target", target |-> target, pre |-> state,
                        raised |-> r.raised, value |-> r.value]
            /\ UNCHANGED <<state, Rest>>

InReach(pos) == \A k \in 1..3 : RLe(RAbs(pos[k]), R(MaxCoord))

\* state.position = list(pos) (test_modal.py:33)
SetPosition ==
    /\ call.op = "resolve_target"
    /\ call.raised = ""
    /\ InReach(call.value)
    /\ state' = [state EXCEPT !.position = call.value]
    /\ call' = [op |-> "set_position", pre |-> state]
    /\ UNCHANGED Rest

InterpNext == Interpret \/ ResolveTarget \/ SetPosition

InterpSpec == InterpInit /\ [][InterpNext]_vars

-----------------------------------------------------------------------------
(* SegmentSpec: segment_linear and segment_arc called on their own.          *)

\* Points at rational distances from one another (5, 10, 12, 13 mm)
LinePoints ==
    {Zero3, <<R(3), R(4), Zero>>, <<R(6), R(8), Zero>>, <<R(3), R(4), R(12)>>}

Feedrates == {R(600), R(60), Zero}      \* mm/min
SegmentTimes == {Rat(1, 2), R(1)}       \* s

\* The centre, and the points on the axes through it at radius 2
ArcCenter == <<Zero, Zero>>
ArcPoints ==
    {ArcCenter, <<R(2), Zero>>, <<Zero, R(2)>>, <<R(-2), Zero>>, <<Zero, R(-2)>>}

\* tolerance / radius: 0 (no chord allowed), 1/2 (chords of at most a third of
\* a turn), 1 and 2 (chords of at most half a turn)
ToleranceRatios == {Zero, Rat(1, 2), R(1), R(2)}

SegmentInit ==
    /\ call = NoCall
    /\ state = CNCModalState
    /\ planner = StreamCfg
    /\ ctrl = CNCController
    /\ streamer = [GCodeStreamer(0) EXCEPT !.open = FALSE]
    /\ executed = <<>>
    /\ hist = NewJob(Origin)
    /\ mode = CNCMode
    /\ run = "out"

SegmentLinear ==
    \E p \in LinePoints, q \in LinePoints, feedrate \in Feedrates,
       max_segment_time \in SegmentTimes :
        /\ call' = [op |-> "segment_linear", start |-> p, end |-> q,
                    feedrate |-> feedrate, max_segment_time |-> max_segment_time,
                    segs |-> segment_linear(p, q, feedrate, max_segment_time)]
        /\ UNCHANGED <<state, Rest>>

\* The arcs whose points have rational coordinates: every point at a multiple
\* of a quarter turn from the start.
OnAxes(a) == IF a.raised # "" \/ a.segments = 0 THEN TRUE ELSE RMul(RDiv(a.sweep, R(a.segments)), R(2)).d = 1

SegmentArc ==
    \E p \in ArcPoints, q \in ArcPoints, clockwise \in BOOLEAN,
       ratio \in ToleranceRatios :
        \E tolerance \in {RMul(ratio, hypot(p[1], p[2]))} :
            /\ p # ArcCenter /\ q # ArcCenter
                  => OnAxes([raised |-> "", sweep |-> arc_sweep(p, q, ArcCenter, clockwise),
                             segments |-> IF ratio = Zero THEN 0
                                          ELSE arc_segment_count(
                                                   arc_sweep(p, q, ArcCenter, clockwise),
                                                   max_seg_angle(tolerance, hypot(p[1], p[2])))])
            /\ call' = [op |-> "segment_arc", start |-> p, end |-> q,
                        center |-> ArcCenter, clockwise |-> clockwise,
                        tolerance |-> tolerance,
                        arc |-> segment_arc(p, q, ArcCenter, clockwise, tolerance)]
            /\ UNCHANGED <<state, Rest>>

SegmentNext == SegmentLinear \/ SegmentArc

SegmentSpec == SegmentInit /\ [][SegmentNext]_vars

-----------------------------------------------------------------------------
(* WindowSpec: a planner whose buffer_time is never reached, so that only    *)
(* the cap on the number of moves can make it commit.                        *)

MaxWindowPushes == 11     \* pushes made on the capped planner

\* The keep_tail_moves and max_window_moves arguments given to CNCPlanner
WindowArgs ==
    {[keep_tail_moves |-> 0, max_window_moves |-> 3],
     [keep_tail_moves |-> 2, max_window_moves |-> 10],
     [keep_tail_moves |-> 10, max_window_moves |-> 10]}

\* The planner constructed with these arguments (3 mm/s^2, 1000 s to buffer)
WindowPlanner(args) ==
    CNCPlanner(R(10), R(3), Rat(1, 2), R(1000), args.keep_tail_moves, args.max_window_moves, None)

WindowMoves == {MvShort, MvTurn}

WindowInit ==
    /\ planner \in {WindowPlanner(args) : args \in WindowArgs}
    /\ ctrl = CNCController
    /\ streamer = [remaining |-> 0, line_number |-> 0, eof |-> FALSE, open |-> FALSE]
    /\ executed = <<>>
    /\ hist = NewJob(Origin)
    /\ call = NoCall
    /\ mode = CNCMode
    /\ run = "out"
    /\ state = CNCModalState

WindowPush ==
    \E mv \in WindowMoves :
      /\ hist.npush < MaxWindowPushes
      /\ \E prim \in {interpret(hist.pos, <<mv>>)[1]} :
           \E r \in {planner_push(planner, prim)} :
             /\ planner' = r.pl
             /\ hist' = [hist EXCEPT !.pos = prim.end,
                                     !.pushed = Append(@, prim),
                                     !.emitted = @ \o r.out,
                                     !.npush = @ + 1]
             /\ call' = [NoCall EXCEPT !.op = "push", !.out = r.out]
      /\ UNCHANGED <<ctrl, streamer, executed, mode, run, state>>

WindowNext == WindowPush

WindowSpec == WindowInit /\ [][WindowNext]_vars

-----------------------------------------------------------------------------
(* LookaheadSpec: the controller on a file long enough to fill the ready     *)
(* queue up to lookahead_size.  Every line of the file stands for the same   *)
(* two moves, both with a feedrate.                                          *)

MaxFileLines == 12      \* lines in the long file

FileLine == <<MvLong, MvShort>>
FileBatch == [i \in 1..MaxFileLines |-> FileLine]

\* The max_lines and max_steps passed to pump
LongLinesArgs == {0, 1, MaxFileLines}
LongStepsArgs == {0, 1, 4}

LookaheadInit ==
    /\ planner = StreamCfg
    /\ ctrl = CNCController
    /\ streamer = [remaining |-> MaxFileLines, line_number |-> 0, eof |-> FALSE,
                   open |-> TRUE]
    /\ executed = <<>>
    /\ hist = NewJob(Origin)
    /\ call = NoCall
    /\ mode = CNCMode
    /\ run = "out"
    /\ state = CNCModalState

LongPump ==
    \E max_lines \in LongLinesArgs, max_steps \in LongStepsArgs :
        \E r \in {pump(World, FileBatch, max_lines, max_steps)} :
            /\ SetWorld(r.w)
            /\ call' = [op |-> "pump", pre |-> ctrl.state, raised |-> r.raised,
                        lines_read |-> r.lines_read, steps |-> r.steps,
                        did |-> FALSE, out |-> <<>>, pending |-> 0,
                        max_lines |-> max_lines, max_steps |-> max_steps]
            /\ UNCHANGED <<mode, run, state>>

LookaheadNext == LongPump \/ Start

LookaheadSpec == LookaheadInit /\ [][LookaheadNext]_vars

-----------------------------------------------------------------------------
(* RestartSpec: the planner driven by push / finish / reset as in            *)
(* PlannerSpec, each call recording whether anything was emitted since the   *)
(* planner was constructed, reset or finished (fresh), and whether the call  *)
(* emitted the first primitive since then (first).                           *)

\* A call of RestartSpec: [op, out, fresh, first]
Fresh == [op |-> "init", out |-> <<>>, fresh |-> TRUE, first |-> FALSE]

RestartInit ==
    /\ planner \in PlannerConfigs
    /\ ctrl = CNCController
    /\ streamer = [remaining |-> 0, line_number |-> 0, eof |-> FALSE, open |-> FALSE]
    /\ executed = <<>>
    /\ hist = NewJob(Origin)
    /\ call = Fresh
    /\ mode = CNCMode
    /\ run = "out"
    /\ state = CNCModalState

RestartPush ==
    \E mv \in MoveKinds :
      /\ hist.npush < MaxPushes
      /\ \E prim \in {interpret(hist.pos, <<mv>>)[1]} :
           \E r \in {planner_push(planner, prim)} :
             /\ planner' = r.pl
             /\ hist' = [hist EXCEPT !.pos = prim.end,
                                     !.pushed = Append(@, prim),
                                     !.emitted = @ \o r.out,
                                     !.npush = @ + 1]
             /\ call' = [op |-> "push", out |-> r.out,
                         fresh |-> call.fresh /\ r.out = <<>>,
                         first |-> call.fresh /\ r.out # <<>>]
      /\ UNCHANGED <<ctrl, streamer, executed, mode, run, state>>

RestartFinish ==
    \E r \in {planner_finish(planner)} :
        /\ planner' = r.pl
        /\ hist' = [hist EXCEPT !.emitted = @ \o r.out]
        /\ call' = [op |-> "finish", out |-> r.out, fresh |-> TRUE,
                    first |-> call.fresh /\ r.out # <<>>]
        /\ UNCHANGED <<ctrl, streamer, executed, mode, run, state>>

RestartReset ==
    /\ planner' = planner_reset(planner)
    /\ hist' = [NewJob(Origin) EXCEPT !.npush = hist.npush]
    /\ call' = [Fresh EXCEPT !.op = "planner_reset"]
    /\ UNCHANGED <<ctrl, streamer, executed, mode, run, state>>

RestartNext == RestartPush \/ RestartFinish \/ RestartReset

RestartSpec == RestartInit /\ [][RestartNext]_vars

-----------------------------------------------------------------------------
(* Properties.                                                               *)

REq(a, b) == a.n * b.d = b.n * a.d

IsPrefix(s, t) == Len(s) <= Len(t) /\ SubSeq(t, 1, Len(s)) = s

\* The primitives of prims that are not shorter than EPS.
NonZeroLength(prims) == SelectSeq(prims, LAMBDA p : ~BelowEps(R(length(p))))

\* The primitives of a sequence of PlannedPrimitives / of the window's moves.
PrimitivesOf(planned) == [i \in 1..Len(planned) |-> planned[i].primitive]
WindowPrimitives(window) == [i \in 1..Len(window) |-> window[i].p]

\* The speed cap (squared) of a primitive: max_velocity for a Rapid move and
\* for a move without a feedrate, min(max_velocity, feedrate/60) otherwise.
SpeedCap2(cfg, p) ==
    LET cap == IF p.motion = RAPID \/ p.feedrate = None THEN cfg.max_velocity
               ELSE RMin(cfg.max_velocity, Rat(p.feedrate[1], 60))
    IN  RMul(cap, cap)

\* Where the output of the last push / finish begins in the concatenated output.
LastOutStart == Len(hist.emitted) - Len(call.out)

\* C1: the primitives handed to executor.execute are a prefix of the
\* non-zero-length primitives the interpreter returned, in the order the lines
\* were read: nothing is reordered, duplicated or skipped.
C1_ExecutedInReadOrder == IsPrefix(executed, NonZeroLength(hist.pushed))

\* C2: in the concatenated output of push and finish since the last reset,
\* every PlannedPrimitive's v_exit equals the next one's v_entry, also when
\* the two were returned by different calls.
C2_Continuity ==
    \A i \in 1..(Len(hist.emitted) - 1) :
        REq(hist.emitted[i].v_exit2, hist.emitted[i + 1].v_entry2)

\* C2 witness: a call returned a re-planned head whose predecessor was
\* returned by an earlier call, and the speed at their junction is not zero.
C2_Witness ==
    /\ call.op \in {"push", "finish"}
    /\ call.out # <<>>
    /\ LastOutStart >= 1
    /\ ~BelowEps(hist.emitted[LastOutStart].v_exit2)
    /\ REq(hist.emitted[LastOutStart].v_exit2, call.out[1].v_entry2)

\* C3: every emitted PlannedPrimitive satisfies
\* |v_exit^2 - v_entry^2| <= 2 * accel * L, the re-planned head of a window,
\* entered at the stored carry-in, included.
C3_Reachability ==
    \A i \in 1..Len(hist.emitted) :
        LET e == hist.emitted[i]
        IN  RLe(RAbs(RSub(e.v_exit2, e.v_entry2)),
                RMul(R(2), RMul(e.accel, R(length(e.primitive)))))

\* C3 witness: a re-planned head entered at a carry-in above zero was
\* returned, and it slows down over its length.
C3_Witness ==
    /\ call.op \in {"push", "finish"}
    /\ call.out # <<>>
    /\ LastOutStart >= 1
    /\ ~BelowEps(call.out[1].v_entry2)
    /\ RLt(call.out[1].v_exit2, call.out[1].v_entry2)

\* C4: every emitted PlannedPrimitive has 0 <= v_entry <= v_peak,
\* 0 <= v_exit <= v_peak and v_peak <= the speed cap of its primitive.
C4_SpeedBounds ==
    \A i \in 1..Len(hist.emitted) :
        LET e == hist.emitted[i]
        IN  /\ RLe(Zero, e.v_entry2) /\ RLe(e.v_entry2, e.v_peak2)
            /\ RLe(Zero, e.v_exit2) /\ RLe(e.v_exit2, e.v_peak2)
            /\ RLe(e.v_peak2, SpeedCap2(planner.cfg, e.primitive))

\* C4 witness: a Linear move with a feedrate below max_velocity was returned
\* with v_peak at that feedrate, and a move entered above zero that speeds up
\* to its peak and slows down from it was returned too.
C4_Witness ==
    /\ \E i \in 1..Len(hist.emitted) :
         LET e == hist.emitted[i]
         IN  /\ e.primitive.motion = LINEAR
             /\ e.primitive.feedrate # None
             /\ RLt(SpeedCap2(planner.cfg, e.primitive),
                    RMul(planner.cfg.max_velocity, planner.cfg.max_velocity))
             /\ REq(e.v_peak2, SpeedCap2(planner.cfg, e.primitive))
    /\ \E j \in 1..Len(hist.emitted) :
         LET e == hist.emitted[j]
         IN  /\ ~BelowEps(e.v_entry2)
             /\ RLt(e.v_entry2, e.v_peak2)
             /\ RLt(e.v_exit2, e.v_peak2)

\* C5: finish on a non-empty window returns one PlannedPrimitive for each
\* move of the window, in window order, the last with v_exit = 0, and leaves
\* an empty window, zero window time and zero carry-in; on an empty window it
\* returns nothing and changes nothing.
C5_Finish ==
    [][call'.op = "finish" =>
         IF planner.window = <<>>
         THEN call'.out = <<>> /\ planner' = planner
         ELSE /\ PrimitivesOf(call'.out) = WindowPrimitives(planner.window)
              /\ REq(call'.out[Len(call'.out)].v_exit2, Zero)
              /\ planner'.window = <<>>
              /\ planner'.window_time = Zero
              /\ planner'.carry_in_v2 = Zero]_vars

\* C5 witness: finish has returned the plan of a window of several moves
\* entered at a carry-in above zero.
C5_Witness ==
    /\ call.op = "finish"
    /\ Len(call.out) >= 2
    /\ ~BelowEps(call.out[1].v_entry2)
    /\ planner.window = <<>>

\* C6: the primitives returned so far, followed by those still in the window,
\* are the pushed primitives of length >= EPS, each once and in push order;
\* after finish none is left in the window; and what has been returned stays
\* as it is at the head of the concatenated output, unless reset intervenes.
C6_CommittedOnce ==
    /\ [](PrimitivesOf(hist.emitted) \o WindowPrimitives(planner.window)
             = NonZeroLength(hist.pushed))
    /\ [](call.op = "finish" => PrimitivesOf(hist.emitted) = NonZeroLength(hist.pushed))
    /\ [][call'.op # "planner_reset" =>
             hist'.emitted = hist.emitted \o call'.out]_vars

\* C6 witness: a push has committed a prefix of the window and kept a tail,
\* a primitive shorter than EPS having been pushed as well.
C6_Witness ==
    /\ call.op = "push"
    /\ call.out # <<>>
    /\ planner.window # <<>>
    /\ Len(NonZeroLength(hist.pushed)) < Len(hist.pushed)

\* The state a command leaves, as the state machine of the specification
\* has it: start acts in Idle only.
StateAfter(op, s) ==
    CASE op = "start" -> IF s = IDLE THEN RUNNING ELSE s
      [] op = "feed_hold" -> IF s = RUNNING THEN HOLD ELSE s
      [] op = "resume" -> IF s = HOLD THEN RUNNING ELSE s
      [] op = "cancel" -> CANCELLED
      [] op = "reset" -> IDLE
      [] OTHER -> s

\* The same with start acting in every state but Cancelled.
StateAfterStartResumes(op, s) ==
    IF op = "start" THEN (IF s = CANCELLED THEN s ELSE RUNNING) ELSE StateAfter(op, s)

\* C7 as stated: start takes Idle to Running, feed_hold Running to Hold,
\* resume Hold to Running, cancel any state to Cancelled, reset any state to
\* Idle; every other command / state pair (start in Hold or Running among
\* them) and every pump and step leave the state unchanged.
C7_TransitionsAsStated == [][ctrl'.state = StateAfter(call'.op, ctrl.state)]_vars

\* C7 amended: as stated, except that start takes Idle, Hold and Running to
\* Running and leaves only Cancelled unchanged.
C7_Transitions == [][ctrl'.state = StateAfterStartResumes(call'.op, ctrl.state)]_vars

\* C7 witness: start was called in Hold and the controller is Running.
C7_Witness == call.op = "start" /\ call.pre = HOLD /\ ctrl.state = RUNNING

\* C8: in Cancelled, start raises and leaves the state Cancelled; feed_hold,
\* resume, cancel, pump and step leave it Cancelled; reset leads to Idle.
C8_CancelledUntilReset ==
    [][ctrl.state = CANCELLED =>
         /\ call'.op # "reset" => ctrl'.state = CANCELLED
         /\ call'.op = "start" => call'.raised
         /\ call'.op = "reset" => ctrl'.state = IDLE]_vars

\* C8 witness: start was called in Cancelled, raised, and the state is Cancelled.
C8_Witness ==
    call.op = "start" /\ call.pre = CANCELLED /\ call.raised /\ ctrl.state = CANCELLED

\* A step in which a primitive is handed to the executor.
Executes == call'.op # "reset" /\ executed' # executed

C10_PumpStopsWhenCancelled ==
    [][call'.op = "pump" /\ ctrl.state = CANCELLED =>
         /\ call'.lines_read = 0
         /\ streamer' = streamer
         /\ hist'.pushed = hist.pushed
         /\ hist'.finish_calls = hist.finish_calls
         /\ ctrl'.eof = ctrl.eof
         /\ ctrl'.ready_queue = ctrl.ready_queue
         /\ planner'.window = planner.window]_vars

\* Every primitive executed in the current job was pushed to the planner in it.
ExecutedWerePushed ==
    \A i \in 1..Len(executed) : \E j \in 1..Len(hist.pushed) : hist.pushed[j] = executed[i]

\* C11: reset, called in any state, leaves the controller as it was
\* constructed (Idle, empty ready queue, eof false, progress at its initial
\* values) and the planner with an empty window, no buffered time and zero
\* carry-in; a second reset changes nothing; and whatever is executed after a
\* reset was pushed after it.
C11_ResetClearsJob ==
    /\ call.op = "reset" =>
          /\ ctrl = CNCController
          /\ planner.window = <<>>
          /\ planner.window_time = Zero
          /\ planner.carry_in_v2 = Zero
          /\ reset(ctrl) = ctrl
          /\ planner_reset(planner) = planner
    /\ ExecutedWerePushed

\* reset was called on a cancelled job with primitives still in the ready
\* queue or the window.
C11_Witness == call.op = "reset" /\ call.pre = CANCELLED /\ call.pending > 0

C13_ErrorCancels ==
    (call.op = "tick" /\ call.raised) =>
        (mode.job_state = "idle" /\ ctrl.state = CANCELLED)

\* C14: a timer tick of an active job (running, held or draining) that finds
\* executor.buffer_time above max_toolhead_buffer_time does not pump: no line
\* is read, nothing is pushed or executed, the job state is unchanged, and the
\* handler reschedules itself pump_interval later.
C14_OverBufferedSkipsPump ==
    [][(call'.op = "tick" /\ mode.job_state # "idle"
                          /\ mode.buf > max_toolhead_buffer_time)
           => /\ UNCHANGED <<planner, ctrl, streamer, executed, hist>>
              /\ mode' = [mode EXCEPT !.timer = "pump"]]_vars

\* The handler skipped the pump of a held job that has lines left to read and
\* planned primitives waiting.
C14_Witness ==
    /\ call.op = "tick" /\ ~call.did
    /\ mode.job_state = "hold"
    /\ mode.buf > max_toolhead_buffer_time
    /\ ~ctrl.eof
    /\ ctrl.ready_queue # <<>>

\* C15: the job is declared complete only by a timer tick after which end of
\* file has been reached, the planner window and the ready queue are empty,
\* and the executor buffer read on that tick is at most the near-zero
\* threshold (0.010 s).
C15_CompleteOnlyWhenDrained ==
    [][(mode'.report = "complete" /\ mode.report # "complete")
           => /\ call'.op = "tick"
              /\ ctrl'.eof
              /\ planner'.window = <<>>
              /\ ctrl'.ready_queue = <<>>
              /\ mode'.buf <= DrainedBelow]_vars

\* A job of at least two executed primitives was declared complete from the
\* draining state.
C15_Witness ==
    /\ call.op = "tick" /\ call.pre = "draining"
    /\ mode.report = "complete"
    /\ Len(executed) >= 2

\* C16: hold and cancel are honoured while draining.  CNC_FEED_HOLD during
\* draining puts the job and the controller in hold; a held job is never
\* declared complete, whatever the buffer reads; CNC_RESUME of a job held
\* after its input was exhausted makes it run again, and its next tick that
\* pumps takes it back to draining or, the buffer being drained, to
\* completion; CNC_CANCEL during draining stops the job with no completion
\* report.
C16_HoldAndCancelWhileDraining ==
    [][/\ (call'.op = "CNC_FEED_HOLD" /\ mode.job_state = "draining")
            => (mode'.job_state = "hold" /\ ctrl'.state = HOLD)
       /\ mode.job_state = "hold"
            => (mode'.report # "complete" /\ (call'.op = "tick" => mode'.job_state = "hold"))
       /\ (call'.op = "CNC_RESUME" /\ mode.job_state = "hold" /\ is_done(ctrl))
            => (mode'.job_state = "running" /\ ctrl'.state = RUNNING /\ mode'.timer = "now")
       /\ (call'.op = "tick" /\ call'.did /\ mode.job_state = "running" /\ is_done(ctrl))
            => IF drained(mode'.buf)
               THEN mode'.job_state = "idle" /\ mode'.report = "complete"
               ELSE mode'.job_state = "draining" /\ mode'.timer = "drain"
       /\ (call'.op = "CNC_CANCEL" /\ mode.job_state = "draining")
            => (mode'.job_state = "idle" /\ mode'.report = "cancelled"
                /\ ctrl'.state = CANCELLED /\ mode'.timer = "never")]_vars

\* CNC_FEED_HOLD was issued on a draining job that had executed primitives,
\* and holds it.
C16_Witness ==
    /\ call.op = "CNC_FEED_HOLD" /\ call.pre = "draining"
    /\ mode.job_state = "hold" /\ ctrl.state = HOLD
    /\ is_done(ctrl)
    /\ executed # <<>>

\* The job ended in completion: it is idle with a completion report, every
\* non-zero-length primitive interpreted in it was executed, in order, and
\* nothing is left in the planner window or the ready queue.
JobComplete ==
    /\ mode.job_state = "idle"
    /\ mode.report = "complete"
    /\ ctrl.eof
    /\ executed = NonZeroLength(hist.pushed)
    /\ planner.window = <<>>
    /\ ctrl.ready_queue = <<>>

\* The job was held, cancelled or reset, or stopped on an error.
JobInterrupted ==
    \/ mode.job_state = "hold"
    \/ mode.report \in {"cancelled", "reset", "error"}

\* C17: a job that is running or draining on a finite file, with the timer
\* firing and the executor buffer falling, eventually completes, unless it is
\* held, cancelled, reset or stopped by an error first.
C17_JobEventuallyCompletes ==
    (mode.job_state \in {"running", "draining"}) ~> (JobComplete \/ JobInterrupted)

\* A job of three lines completed with every primitive executed.
C17_Witness ==
    /\ JobComplete
    /\ call.op = "tick"
    /\ streamer.line_number >= 3
    /\ Len(executed) >= 2

\* C18: CNC_START issued while a job is running, held or draining is rejected
\* with an error and changes nothing.
C18_StartRejectedWhileActive ==
    [][(call'.op = "CNC_START" /\ mode.job_state # "idle")
           => /\ call'.raised
              /\ UNCHANGED <<planner, ctrl, streamer, executed, hist, mode>>]_vars

\* CNC_START was rejected on a draining job.
C18_Witness ==
    /\ call.op = "CNC_START" /\ call.raised
    /\ call.pre = "draining"
    /\ mode.job_state = "draining"
    /\ executed # <<>>

\* C19: after CNC_CANCEL stopped a job, and with no CNC_RESET since, CNC_START
\* fails and starts no job.
C19_StartRefusedAfterCancel ==
    [][(mode.report = "cancelled" /\ call'.op = "CNC_START")
           => (call'.raised /\ mode'.job_state = "idle")]_vars

RECURSIVE SumLength(_)
SumLength(prims) == IF prims = <<>> THEN 0 ELSE length(prims[1]) + SumLength(Tail(prims))

\* A bound on the rounds run_stream has left in the Running state: the lines
\* still to read (none of them stands for more than two primitives), the read
\* that finds the end of file, and the primitives waiting in the window and
\* the ready queue.
RoundsLeft ==
    (IF ctrl.eof THEN 0 ELSE 3 * streamer.remaining + 1)
        + Len(planner.window) + Len(ctrl.ready_queue)

\* C20: run_stream entered in the Running state on a finite source, with a
\* planner, terminates: every round that does not leave the loop lowers
\* RoundsLeft.  When it returns, eof is true, the ready queue is empty, the
\* primitives executed are as many as the non-zero-length primitives the
\* interpreter produced, and completed_length is the sum of their lengths.
\* The streamer is closed on every exit, by return (cancelled or not) and by
\* exception.
C20_RunStreamTerminates ==
    [][/\ (run = "loop" /\ run' = "loop" /\ ctrl.state = RUNNING)
            => RoundsLeft' < RoundsLeft
       /\ (run' = "returned" /\ ctrl'.state = RUNNING)
            => /\ ctrl'.eof
               /\ ctrl'.ready_queue = <<>>
               /\ Len(executed') = Len(NonZeroLength(hist'.pushed))
               /\ ctrl'.completed_length = SumLength(NonZeroLength(hist'.pushed))
       /\ run' \in {"returned", "raised"} => ~streamer'.open]_vars

\* run_stream returned from a job of three lines run in the Running state,
\* with primitives executed.
C20_Witness ==
    /\ run = "returned"
    /\ ctrl.state = RUNNING
    /\ streamer.line_number = 3
    /\ Len(executed) >= 2
    /\ ~streamer.open

-----------------------------------------------------------------------------
\* C21: feedrate is required at execution time for non-rapid moves only.  A
\* Rapid primitive without a feedrate that is handed to execution is carried
\* out by the executor; a Linear primitive without a feedrate that is handed
\* to execution is not.
C21_RapidNeedsNoFeedrate ==
    \A i \in 1..Len(hist.handed) :
        hist.handed[i].feedrate = None
            => (hist.handed[i].motion = RAPID
                    <=> \E j \in 1..Len(executed) : executed[j] = hist.handed[i])

-----------------------------------------------------------------------------
(* The interpreter (InterpSpec).                                             *)

\* The X, Y and Z words of a parsed line, as a target
RECURSIVE AxisTarget(_)
AxisTarget(words) ==
    IF words = <<>> THEN NoWords
    ELSE IF words[1][1] \in {"X", "Y", "Z"}
         THEN put(AxisTarget(Tail(words)), words[1][1], words[1][2])
         ELSE AxisTarget(Tail(words))

HasAxisWord(line) == line # None /\ AxisTarget(line[1].words) # NoWords

\* A call of interpret on a line with an axis word, which did not raise.
Interpreted == call.op = "interpret" /\ HasAxisWord(call.line) /\ call.raised = ""

\* The target of the line of the last call, resolved in the modal state the
\* call left (its G-codes applied): [raised, value]
Resolved == resolve_target(state, AxisTarget(call.line[1].words))

\* C22: after interpret has processed a line with an X, Y or Z word, it has
\* returned the list of its primitives and the stored program-space position
\* is the resolved target of the line.
C22_PositionFollowsTarget ==
    Interpreted => call.returned # None /\ state.position = Resolved.value

\* What resolve_target is to return: for each axis in the target, the scaled
\* value in absolute mode and the position plus the scaled value in
\* incremental mode; the position for the other axes.
Expected(st, target) ==
    [i \in 1..3 |->
        IF Axes[i] \notin DOMAIN target THEN st.position[i]
        ELSE IF st.absolute THEN RMul(target[Axes[i]], st.units_scale)
        ELSE RAdd(st.position[i], RMul(target[Axes[i]], st.units_scale))]

\* C23: resolve_target never fails and returns, per axis, the scaled value
\* (absolute mode) or the position plus the scaled value (incremental mode),
\* absent axes staying at the current position.
C23_ResolveTarget ==
    call.op = "resolve_target"
        => call.raised = "" /\ call.value = Expected(call.pre, call.target)

\* The work coordinate system a line selects: G54..G59 among its G-codes.
Selects(line, g) == line # None /\ \E i \in 1..Len(line[1].gcodes) : line[1].gcodes[i] = g

\* C24: a line with G55 makes the second work coordinate system the active
\* one.
C24_WCSSelected ==
    (call.op = "interpret" /\ Selects(call.line, 55)) => state.active_wcs = "G55"

\* C25: G20 on a line is applied before the line's F word (F10 is stored as
\* 254 mm/min), G21 alone changes neither the stored feedrate nor the stored
\* position, and "X10" interpreted in millimetres, absolute mode, leaves the
\* stored position at X = 10 mm.
C25_UnitsThenFeed ==
    /\ (call.op = "interpret" /\ call.line = Parsed(<<20, 1>>, <<<<"F", R(10)>>, <<"X", R(1)>>>>))
            => state.feedrate = R(254)
    /\ (call.op = "interpret" /\ call.line = Parsed(<<21>>, <<>>))
            => state.feedrate = call.pre.feedrate /\ state.position = call.pre.position
    /\ (call.op = "interpret" /\ call.line = Parsed(<<>>, <<<<"X", R(10)>>>>)
            /\ call.pre.units = "mm" /\ call.pre.absolute)
            => state.position[1] = R(10)

\* C26: a line whose machine-space endpoint is outside the soft limits fails
\* with a soft-limit error.
C26_SoftLimitsEnforced ==
    (/\ call.op = "interpret" /\ HasAxisWord(call.line)
     /\ Resolved.raised = ""
     /\ check_point(soft_limits, apply_work_offset(state, Resolved.value)))
        => call.raised = "SoftLimitError"

\* The helix "G2 I1 Z-4": interpret builds one pass of primitives for the
\* word I alone and one, of as many primitives, for I and Z; the second pass
\* is the helix.
Helix == SubSeq(call.primitives, Len(call.primitives) \div 2 + 1, Len(call.primitives))

\* The in-plane (XY) length of the first n primitives of a pass
RECURSIVE InPlane(_, _)
InPlane(prims, n) ==
    IF n = 0 THEN Zero
    ELSE RAdd(InPlane(prims, n - 1),
              hypot(RSub(prims[n].end[1], prims[n].start[1]),
                    RSub(prims[n].end[2], prims[n].start[2])))

\* C29: along a helix in the XY plane, after each segment the part of the Z
\* delta travelled is the part of the in-plane length travelled since the
\* start of the arc, and the last segment ends at the commanded Z.
C29_HelixByArcLength ==
    (/\ call.op = "interpret" /\ call.raised = "" /\ call.pre.plane = "G17"
     /\ call.line = Parsed(<<2>>, <<<<"I", R(1)>>, <<"Z", R(-4)>>>>))
        => /\ Helix # <<>>
           /\ \A k \in 1..Len(Helix) :
                 RSub(Helix[k].end[3], Helix[1].start[3])
                     = RMul(RMul(R(-4), call.pre.units_scale),
                            RDiv(InPlane(Helix, k), InPlane(Helix, Len(Helix))))

-----------------------------------------------------------------------------
(* Segmentation (SegmentSpec).                                               *)

\* The speed of a call of segment_linear, mm/s
Speed == RDiv(call.feedrate, R(60))

\* C27: segment_linear, on a move of positive length at a positive feedrate,
\* returns N = max(1, ceil(L / v / max_segment_time)) segments (the least
\* N >= 1 with L <= N * v * max_segment_time), contiguous, the first starting
\* at start and the last ending at end, each lasting at most
\* max_segment_time; on a move from a point to itself it returns none.
C27_LinearSegments ==
    call.op = "segment_linear" =>
        /\ call.start = call.end => call.segs = <<>>
        /\ (call.start # call.end /\ RLt(Zero, call.feedrate)) =>
             LET N == Len(call.segs)
                 reach == RMul(Speed, call.max_segment_time)
             IN  /\ N >= 1
                 /\ RLe(dist(call.start, call.end), RMul(R(N), reach))
                 /\ N > 1 => RLt(RMul(R(N - 1), reach), dist(call.start, call.end))
                 /\ call.segs[1][1] = call.start
                 /\ call.segs[N][2] = call.end
                 /\ \A i \in 1..(N - 1) : call.segs[i][2] = call.segs[i + 1][1]
                 /\ \A i \in 1..N :
                        RLe(RDiv(dist(call.segs[i][1], call.segs[i][2]), Speed),
                            call.max_segment_time)

\* A move of 13 mm at 10 mm/s with 0.5 s segments: 2.6 rounds up to 3.
C27_Witness ==
    /\ call.op = "segment_linear"
    /\ dist(call.start, call.end) = R(13)
    /\ call.feedrate = R(600)
    /\ call.max_segment_time = Rat(1, 2)
    /\ Len(call.segs) = 3

\* C28: the angular step of the segments of an arc, |sweep| / segments, is at
\* most max_seg_angle.
C28_ChordWithinTolerance ==
    (call.op = "segment_arc" /\ call.arc.raised = "" /\ call.arc.segments > 0)
        => RLe(RDiv(RAbs(call.arc.sweep), R(call.arc.segments)), call.arc.max_seg_angle)

-----------------------------------------------------------------------------
(* Reversals (PlannerSpec).                                                  *)

Delta(p) == <<p.end[1] - p.start[1], p.end[2] - p.start[2], p.end[3] - p.start[3]>>
IDot(a, b) == a[1] * b[1] + a[2] * b[2] + a[3] * b[3]

\* p and q run in exactly opposite directions (the angle between them is 180
\* degrees): dot < 0 and dot^2 = |p|^2 |q|^2.
Opposite(p, q) ==
    /\ IDot(Delta(p), Delta(q)) < 0
    /\ IDot(Delta(p), Delta(q)) * IDot(Delta(p), Delta(q))
           = IDot(Delta(p), Delta(p)) * IDot(Delta(q), Delta(q))

\* C30: when two consecutive planned moves run in exactly opposite
\* directions, the first ends and the second starts at speed zero, whatever
\* their lengths, feedrates and accelerations.
C30_ReversalStops ==
    \A i \in 1..(Len(hist.emitted) - 1) :
        Opposite(hist.emitted[i].primitive, hist.emitted[i + 1].primitive)
            => /\ hist.emitted[i].v_exit2 = Zero
               /\ hist.emitted[i + 1].v_entry2 = Zero

\* C30 witness: one call returned a move and its reversal, planned in the same
\* window, of different lengths and feedrates; both reach a speed above zero
\* and the first ends at zero.
C30_Witness ==
    /\ call.op \in {"push", "finish"}
    /\ \E i \in (LastOutStart + 1)..(Len(hist.emitted) - 1) :
          /\ Opposite(hist.emitted[i].primitive, hist.emitted[i + 1].primitive)
          /\ length(hist.emitted[i].primitive) # length(hist.emitted[i + 1].primitive)
          /\ hist.emitted[i].primitive.feedrate # hist.emitted[i + 1].primitive.feedrate
          /\ RLt(Zero, hist.emitted[i].v_peak2)
          /\ RLt(Zero, hist.emitted[i + 1].v_peak2)
          /\ hist.emitted[i].v_exit2 = Zero

-----------------------------------------------------------------------------
(* Junction caps and the commit policy (PlannerSpec).                        *)

\* The _MoveInfo the planner made of an emitted primitive
InfoOf(e) == make_moveinfo(planner.cfg, e.primitive)[1]

\* min(v2_jd, v2_short, prev.vmax^2, cur.vmax^2) with
\* accel_junction = min(prev.accel, cur.accel)
JunctionCap(prev, cur) ==
    RMin(junction_v2(prev, cur, planner.cfg.junction_deviation, RMin(prev.accel, cur.accel)),
         RMin(vmax2_of(prev), vmax2_of(cur)))

\* C31: for every pair of consecutive emitted primitives the squared speed at
\* their junction (the first's v_exit^2, the second's v_entry^2) is at most
\* min(v2_jd, v2_short, prev.vmax^2, cur.vmax^2), also when the two were
\* committed by different calls.
C31_JunctionCap ==
    \A i \in 1..(Len(hist.emitted) - 1) :
        /\ RLe(hist.emitted[i].v_exit2,
               JunctionCap(InfoOf(hist.emitted[i]), InfoOf(hist.emitted[i + 1])))
        /\ RLe(hist.emitted[i + 1].v_entry2,
               JunctionCap(InfoOf(hist.emitted[i]), InfoOf(hist.emitted[i + 1])))

\* C31 witness: a call returned a head whose predecessor was returned by an
\* earlier call; the two turn a corner, and the speed at the corner is above
\* zero, at the junction-deviation cap and below both moves' vmax.
C31_Witness ==
    /\ call.op \in {"push", "finish"}
    /\ call.out # <<>>
    /\ LastOutStart >= 1
    /\ ~BelowEps(hist.emitted[LastOutStart].v_exit2)
    /\ REq(hist.emitted[LastOutStart].v_exit2,
           JunctionCap(InfoOf(hist.emitted[LastOutStart]), InfoOf(call.out[1])))
    /\ RLt(hist.emitted[LastOutStart].v_exit2, vmax2_of(InfoOf(hist.emitted[LastOutStart])))
    /\ RLt(hist.emitted[LastOutStart].v_exit2, vmax2_of(InfoOf(call.out[1])))

\* The moves of the window are the last ones pushed (zero-length ones aside).
WindowIsTail ==
    LET pushed == NonZeroLength(hist.pushed)
        n == Len(planner.window)
    IN  /\ n <= Len(pushed)
        /\ \A k \in 1..n : planner.window[k].p = pushed[Len(pushed) - n + k]

\* C32: a push returns nothing when the window, the new move included, holds
\* at most keep_tail_moves moves; after a push that returned something at
\* least keep_tail_moves moves are left in the window, and they are the last
\* ones pushed, so push never returns one of the last keep_tail_moves moves.
C32_TailKept ==
    call.op = "push" =>
        /\ Len(planner.window) + Len(call.out) <= planner.cfg.keep_tail_moves
               => call.out = <<>>
        /\ call.out # <<>> =>
               /\ Len(planner.window) >= planner.cfg.keep_tail_moves
               /\ WindowIsTail
               /\ Len(hist.emitted) + Len(planner.window) = Len(NonZeroLength(hist.pushed))

\* C32 witness: with keep_tail_moves = 2 a push returned a move and left
\* exactly two in the window.
C32_Witness ==
    /\ call.op = "push"
    /\ call.out # <<>>
    /\ planner.cfg.keep_tail_moves = 2
    /\ Len(planner.window) = 2

\* The sum of min_time over the moves a call returned
RECURSIVE out_min_time(_)
out_min_time(out) ==
    IF out = <<>> THEN Zero ELSE RAdd(InfoOf(out[1]).min_time, out_min_time(Tail(out)))

\* The push was not forced: the window, the new move included, was below
\* max_window_moves.
NotForced == Len(planner.window) + Len(call.out) < planner.cfg.max_window_moves

\* C33: a push that is not forced returns nothing when the sum of min_time
\* over the window, the new move included, is below buffer_time; and after a
\* push that is not forced and returned something, the sum of min_time over
\* the moves left in the window is at least buffer_time.
C33_BufferKept ==
    (call.op = "push" /\ NotForced) =>
        /\ RLt(RAdd(sum_min_time(planner.window), out_min_time(call.out)),
               planner.cfg.buffer_time) => call.out = <<>>
        /\ call.out # <<>> =>
               /\ RLe(planner.cfg.buffer_time, sum_min_time(planner.window))
               /\ planner.window_time = sum_min_time(planner.window)

\* C33 witness: with a buffer_time above zero, a push that was not forced
\* returned a move and left more than buffer_time in the window.
C33_Witness ==
    /\ call.op = "push"
    /\ NotForced
    /\ call.out # <<>>
    /\ RLt(Zero, planner.cfg.buffer_time)
    /\ RLt(planner.cfg.buffer_time, sum_min_time(planner.window))

-----------------------------------------------------------------------------
(* The cap on the window (WindowSpec).                                       *)

\* The arguments the planner can have been constructed with
ArgsOf(pl) == {args \in WindowArgs : WindowPlanner(args).cfg = pl.cfg}

\* C34 as stated, on the arguments as configured: a push that brings the
\* window to max_window_moves moves commits all but keep_tail_moves of them,
\* and after every push the window holds fewer than max_window_moves moves
\* (given keep_tail_moves < max_window_moves).
C34_CapAsConfigured ==
    \A args \in ArgsOf(planner) :
        (call.op = "push" /\ args.keep_tail_moves < args.max_window_moves) =>
            /\ Len(planner.window) + Len(call.out) >= args.max_window_moves
                   => Len(planner.window) = args.keep_tail_moves
            /\ Len(planner.window) < args.max_window_moves

\* C34, amended: the same with the values the constructor stores,
\* max(1, keep_tail_moves) and max(10, max_window_moves).
C34_CapAsStored ==
    (call.op = "push" /\ planner.cfg.keep_tail_moves < planner.cfg.max_window_moves) =>
        /\ Len(planner.window) + Len(call.out) >= planner.cfg.max_window_moves
               => /\ Len(planner.window) = planner.cfg.keep_tail_moves
                  /\ Len(call.out) = planner.cfg.max_window_moves - planner.cfg.keep_tail_moves
        /\ Len(planner.window) < planner.cfg.max_window_moves

\* C34 witness: the push that brought the window to ten moves returned eight
\* of them, with far less than buffer_time in the window.
C34_Witness ==
    /\ call.op = "push"
    /\ planner.cfg.max_window_moves = 10
    /\ Len(call.out) = 8
    /\ Len(planner.window) = 2
    /\ RLt(RAdd(sum_min_time(planner.window), out_min_time(call.out)), planner.cfg.buffer_time)

-----------------------------------------------------------------------------
(* Stopping within the window (PlannerSpec).                                 *)

\* The sum of 2 * accel * L over the moves of the window
RECURSIVE stop_room(_)
stop_room(ms) == IF ms = <<>> THEN Zero ELSE RAdd(two_a_L(ms[1]), stop_room(Tail(ms)))

\* C35: the stored carry-in v^2 is at most the sum of 2 * accel * L over the
\* moves in the window: what was committed can be brought to a stop within
\* the moves the planner still holds.
C35_CarryInStoppable == RLe(planner.carry_in_v2, stop_room(planner.window))

\* C35 witness: a push committed a move and stored a carry-in above zero
\* that needs the whole of the one move left to stop.
C35_Witness ==
    /\ call.op = "push"
    /\ call.out # <<>>
    /\ RLt(Zero, planner.carry_in_v2)
    /\ Len(planner.window) = 1
    /\ REq(planner.carry_in_v2, stop_room(planner.window))

-----------------------------------------------------------------------------
(* One call of pump (LookaheadSpec).                                         *)

\* The world after the first j lines of a pump that started in w were read
AfterLines(w, j) == refill(w, FileBatch, 0, j).w

\* A read was allowed in w: end of input not seen, room in the ready queue.
MayRead(w) == ~w.ctrl.eof /\ Len(w.ctrl.ready_queue) < w.ctrl.lookahead_size

\* What a pump that started in w and reported c left behind, hnd and queue
\* being the primitives handed to the executor and the ready queue after it.
PumpWithinLimits(w, c, hnd, queue, eof) ==
    /\ c.lines_read <= c.max_lines
    /\ c.steps <= c.max_steps
    /\ \A j \in 0..(c.lines_read - 1) : MayRead(AfterLines(w, j))
    /\ (eof /\ ~w.ctrl.eof) =>
           /\ c.lines_read < c.max_lines
           /\ MayRead(AfterLines(w, c.lines_read))
    /\ Len(hnd) = Len(w.hist.handed) + c.steps
    /\ PrimitivesOf(AfterLines(w, c.max_lines).ctrl.ready_queue)
           = SubSeq(hnd, Len(w.hist.handed) + 1, Len(hnd)) \o PrimitivesOf(queue)

\* C36: one call of pump reads at most max_lines lines, each of them while
\* end of input had not been seen and the ready queue held fewer than
\* lookahead_size entries; it executes at most max_steps primitives, and they
\* are the head of the ready queue as the reading left it: all reading comes
\* before the first execution.
C36_PumpLimits ==
    [][call'.op = "pump" =>
          PumpWithinLimits(World, call', hist'.handed, ctrl'.ready_queue, ctrl'.eof)]_vars

\* C36 witness: a pump on an empty ready queue read lines, stopped reading
\* below max_lines and before the end of the file because the ready queue had
\* reached lookahead_size, and then executed primitives it had just read.
C36_Witness ==
    /\ call.op = "pump"
    /\ call.steps > 0
    /\ call.lines_read > 0
    /\ call.lines_read < call.max_lines
    /\ ~ctrl.eof
    /\ streamer.remaining > 0
    /\ Len(ctrl.ready_queue) + call.steps >= ctrl.lookahead_size
    /\ Len(hist.handed) = call.steps

-----------------------------------------------------------------------------
(* The end of the input (Spec).                                              *)

\* The planned primitives committed and not yet handed to the executor
NotYetHanded == SubSeq(hist.emitted, Len(hist.handed) + 1, Len(hist.emitted))

\* C37: within one job planner.finish() is called once, at the moment the
\* source first returns end of stream (eof is set with it), and never again;
\* what it returns goes to the back of the ready queue, behind everything
\* committed earlier; from then on no line is read and nothing is pushed to
\* the planner until the next reset.
C37_FinishOnce ==
    [][/\ hist'.finish_calls = (IF ctrl'.eof THEN 1 ELSE 0)
       /\ (~ctrl.eof /\ ctrl'.eof) =>
              /\ streamer'.eof
              /\ planner'.window = <<>>
              /\ PrimitivesOf(hist'.emitted) = NonZeroLength(hist'.pushed)
              /\ ctrl'.ready_queue
                     = SubSeq(hist'.emitted, Len(hist'.handed) + 1, Len(hist'.emitted))
       /\ (ctrl.eof /\ call'.op # "reset") =>
              /\ ctrl'.eof
              /\ streamer' = streamer
              /\ planner' = planner
              /\ hist'.pushed = hist.pushed
              /\ hist'.emitted = hist.emitted]_vars

\* C37 witness: a pump read lines and then found the end of the file; finish
\* was called once, and what it returned (the last move, ending at rest) sits
\* at the back of the ready queue behind a move committed before it.
C37_Witness ==
    /\ call.op = "pump"
    /\ call.lines_read > 0
    /\ ctrl.eof
    /\ hist.finish_calls = 1
    /\ Len(hist.pushed) >= 2
    /\ Len(ctrl.ready_queue) >= 2
    /\ ctrl.ready_queue = NotYetHanded
    /\ ctrl.ready_queue[Len(ctrl.ready_queue)].v_exit2 = Zero
    /\ ~BelowEps(ctrl.ready_queue[1].v_exit2)

-----------------------------------------------------------------------------
(* Primitives of length zero (Spec).                                         *)

\* A primitive of length zero at the interpreter's position
StandStill == MotionPrimitive(LINEAR, hist.pos, hist.pos, Some(600))

RECURSIVE total_length(_)
total_length(prims) ==
    IF prims = <<>> THEN 0 ELSE length(prims[1]) + total_length(Tail(prims))

\* C38: a push of a primitive shorter than EPS returns nothing and leaves the
\* window, the buffered time and the carry-in as they are; the primitives
\* pushed that have a length are, in order, the ones emitted followed by the
\* ones in the window, so a primitive of length zero is never emitted, never
\* handed to the executor and never counted in completed_length.
C38_ZeroLengthDropped ==
    /\ planner_push(planner, StandStill) = [pl |-> planner, out |-> <<>>]
    /\ PrimitivesOf(hist.emitted) \o WindowPrimitives(planner.window)
           = NonZeroLength(hist.pushed)
    /\ \A i \in 1..Len(hist.handed) : length(hist.handed[i]) > 0
    /\ \A i \in 1..Len(ctrl.ready_queue) : length(ctrl.ready_queue[i].primitive) > 0
    /\ ctrl.completed_length = total_length(executed)

\* C38 witness: a primitive of length zero was pushed between others, the
\* file was read to its end and everything committed was executed: the
\* executor got fewer primitives than were pushed.
C38_Witness ==
    /\ \E i \in 1..(Len(hist.pushed) - 1) : length(hist.pushed[i]) = 0
    /\ ctrl.eof
    /\ ctrl.ready_queue = <<>>
    /\ executed = NonZeroLength(hist.pushed)
    /\ Len(executed) >= 2
    /\ ctrl.completed_length = total_length(hist.pushed)

-----------------------------------------------------------------------------
(* Starting from rest (RestartSpec).                                         *)

\* C39: the first PlannedPrimitive emitted after the planner was constructed,
\* reset or finished has v_entry = 0.
C39_StartsFromRest ==
    /\ call.first => call.out[1].v_entry2 = Zero
    /\ call.fresh => planner.carry_in_v2 = Zero
    /\ hist.emitted # <<>> => hist.emitted[1].v_entry2 = Zero

\* C39 witness: a stream restarted after a finish that was entered at speed:
\* the first primitive emitted since that finish starts from rest and leaves
\* at speed, and the last one before it had been entered above zero.
C39_Witness ==
    /\ call.first
    /\ call.op = "push"
    /\ LastOutStart >= 2
    /\ ~BelowEps(hist.emitted[LastOutStart].v_entry2)
    /\ call.out[1].v_entry2 = Zero
    /\ ~BelowEps(call.out[1].v_exit2)

-----------------------------------------------------------------------------
(* Job state and controller state (ModeSpec).                                *)

\* C40: in CNCMode the job state and the controller state agree: a job on
\* hold has the controller in Hold, a running or draining job has it Running;
\* so the controller is never Cancelled while a job is active.
C40_JobAndControllerAgree ==
    /\ mode.job_state = "hold" => ctrl.state = HOLD
    /\ mode.job_state \in {"running", "draining"} => ctrl.state = RUNNING
    /\ mode.job_state # "idle" => ctrl.state # CANCELLED

\* C40 witness: a job that executed primitives and was put on hold has been
\* resumed by CNC_RESUME: it is running again with the controller Running.
C40_Witness ==
    /\ call.op = "CNC_RESUME"
    /\ call.pre = "hold"
    /\ mode.job_state = "running"
    /\ ctrl.state = RUNNING
    /\ executed # <<>>

====
